---- MODULE Spec2Model ----
(***************************************************************************)
(* The GitHub queue proxy of src/src/app/api/github/route.ts: the          *)
(* in-memory response cache (getCached / setCache), the search client      *)
(* (fetchGitHubQueue), the normalizer and the GET route handler, run by    *)
(* several overlapping requests on one process.                            *)
(*                                                                         *)
(* Conventions.                                                            *)
(*  - A JavaScript value that may be null/undefined is a sequence of       *)
(*    length 0 (absent) or 1 (present): None, Some(x).                     *)
(*  - Wall-clock time is kept as the number of milliseconds elapsed since  *)
(*    the instant StartSec (whole seconds since the Unix epoch), because   *)
(*    the model checker's integers are 32 bits wide: Date.now() is               *)
(*    StartSec * 1000 + now.  Differences of two Date.now() values are     *)
(*    differences of the offsets.                                          *)
(*  - Text that the code inspects character by character (label names,     *)
(*    issue bodies, header values, the search query) is a sequence of      *)
(*    one-character strings; text that the code only builds or passes on   *)
(*    (messages, codes, queue names, cache keys) is a string.              *)
(***************************************************************************)
EXTENDS Integers, Sequences, FiniteSets, TLC

VARIABLES
    now,      \* Date.now(), as milliseconds since StartSec
    ticks,    \* how many times the clock has been advanced between steps
    token,    \* process.env.GITHUB_TOKEN
    cache,    \* the module-level Map: key -> [data, timestamp]
    reqs,     \* the GET requests received so far, in arrival order
    writes,   \* the cache.set calls made by requests, in order (history): for
              \* each its key, the request that made it, the time read at
              \* line 274, the time read at line 36, and the raw items of
              \* the response the cards were made from
    call      \* the last direct call of a function of the module (the runs
              \* that call the cache, the query builder or the normalizer
              \* on their own)

vars == <<now, ticks, token, cache, reqs, writes, call>>

----------------------------------------------------------------------------
(* Optional values *)

None == <<>>
Some(x) == <<x>>
IsSome(o) == Len(o) = 1
Get(o) == o[1]

----------------------------------------------------------------------------
(* Bounds of the model *)

\* Seconds since the epoch at which the modelled run starts.
StartSec == 1700000000
\* How many GET requests arrive in one run.
MaxReqs == 2
\* How many GET requests for one queue arrive in a run of overlapping requests.
MaxOverlapReqs == 3
\* How many times the clock is advanced between handler steps.
MaxTicks == 2
\* How many direct cache calls the cache harness makes.
MaxCalls == 4
\* How many requests arrive in a run that tries every provider response.
MaxClientReqs == 1
\* The longest item list the normalizer is called on directly.
MaxItems == 2

----------------------------------------------------------------------------
(* Date *)

Pad(n, w) ==
    LET s == ToString(n)
    IN  IF Len(s) >= w THEN s
        ELSE IF w - Len(s) = 1 THEN "0" \o s
        ELSE IF w - Len(s) = 2 THEN "00" \o s
        ELSE "000" \o s

\* new Date(sec * 1000 + ms).toISOString(), for 0 <= ms < 1000 and a year in
\* 0..9999: the proleptic Gregorian date of the day number sec \div 86400.
toISOString(sec, ms) ==
    LET days == sec \div 86400
        rem  == sec % 86400
        z    == days + 719468
        era  == z \div 146097
        doe  == z - era * 146097
        yoe  == (doe - doe \div 1460 + doe \div 36524 - doe \div 146096) \div 365
        doy  == doe - (365 * yoe + yoe \div 4 - yoe \div 100)
        mp   == (5 * doy + 2) \div 153
        d    == doy - (153 * mp + 2) \div 5 + 1
        m    == IF mp < 10 THEN mp + 3 ELSE mp - 9
        y    == yoe + era * 400 + (IF m <= 2 THEN 1 ELSE 0)
    IN  Pad(y, 4) \o "-" \o Pad(m, 2) \o "-" \o Pad(d, 2) \o "T"
        \o Pad(rem \div 3600, 2) \o ":" \o Pad((rem % 3600) \div 60, 2) \o ":"
        \o Pad(rem % 60, 2) \o "." \o Pad(ms, 3) \o "Z"

\* new Date().toISOString() when Date.now() is StartSec * 1000 + t.
nowISO(t) == toISOString(StartSec + t \div 1000, t % 1000)

----------------------------------------------------------------------------
(* CACHE *)

CACHE_TTL == 60000

CacheGet(c, key) == IF key \in DOMAIN c THEN Some(c[key]) ELSE None
CacheDelete(c, key) == [k \in DOMAIN c \ {key} |-> c[k]]
CacheSet(c, key, entry) ==
    [k \in DOMAIN c \cup {key} |-> IF k = key THEN entry ELSE c[k]]

\* Mutants of getCached: one that never lets an entry expire, and one that
\* still serves an entry aged exactly CACHE_TTL.
getCached_NeverExpires(c, key, t) ==
    LET cached == CacheGet(c, key)
    IN  IF IsSome(cached)
        THEN [ret |-> Some(Get(cached).data), cache |-> c]
        ELSE [ret |-> None, cache |-> CacheDelete(c, key)]

getCached_Inclusive(c, key, t) ==
    LET cached == CacheGet(c, key)
    IN  IF IsSome(cached) /\ t - Get(cached).timestamp <= CACHE_TTL
        THEN [ret |-> Some(Get(cached).data), cache |-> c]
        ELSE [ret |-> None, cache |-> CacheDelete(c, key)]

\* A third mutant of getCached: a hit restarts the entry's time to live.
getCached_Sliding(c, key, t) ==
    LET cached == CacheGet(c, key)
    IN  IF IsSome(cached) /\ t - Get(cached).timestamp < CACHE_TTL
        THEN [ret |-> Some(Get(cached).data),
              cache |-> CacheSet(c, key, [Get(cached) EXCEPT !.timestamp = t])]
        ELSE [ret |-> None, cache |-> CacheDelete(c, key)]

\* getCached(key) at time t on cache c: the value returned and the cache it leaves.
getCached(c, key, t) ==
    LET cached == CacheGet(c, key)
    IN  IF IsSome(cached) /\ t - Get(cached).timestamp < CACHE_TTL
        THEN [ret |-> Some(Get(cached).data), cache |-> c]
        ELSE [ret |-> None, cache |-> CacheDelete(c, key)]

\* Mutant of setCache: an entry already there is kept.
setCache_KeepFirst(c, key, data, t) ==
    IF key \in DOMAIN c THEN c
    ELSE CacheSet(c, key, [data |-> data, timestamp |-> t])

\* setCache(key, data) at time t on cache c: the cache it leaves.
setCache(c, key, data, t) ==
    CacheSet(c, key, [data |-> data, timestamp |-> t])

----------------------------------------------------------------------------
(* Text: sequences of one-character strings *)

\* The characters the regular-expression class \s and String.prototype.trim
\* treat as white space, among those the model's texts use.
IsSpace(ch) == ch \in {" ", "\t", "\n", "\r", "\f"}

\* The lower-case form of a letter, for the case-insensitive patterns; the
\* letters listed are those the two patterns of lines 180 and 186 contain.
Lower(ch) ==
    CASE ch = "A" -> "a" [] ch = "B" -> "b" [] ch = "D" -> "d" [] ch = "E" -> "e"
      [] ch = "F" -> "f" [] ch = "G" -> "g" [] ch = "H" -> "h" [] ch = "I" -> "i"
      [] ch = "L" -> "l" [] ch = "N" -> "n" [] ch = "O" -> "o" [] ch = "P" -> "p"
      [] ch = "R" -> "r" [] ch = "S" -> "s" [] ch = "T" -> "t" [] ch = "U" -> "u"
      [] ch = "V" -> "v" [] ch = "W" -> "w" [] ch = "Y" -> "y"
      [] OTHER -> ch

\* s has pat at position i (1-based).
MatchAt(s, i, pat) ==
    /\ i >= 1
    /\ i + Len(pat) - 1 <= Len(s)
    /\ \A k \in 1..Len(pat) : s[i + k - 1] = pat[k]

\* The same, ignoring case (pat is given in lower case).
MatchAtI(s, i, pat) ==
    /\ i >= 1
    /\ i + Len(pat) - 1 <= Len(s)
    /\ \A k \in 1..Len(pat) : Lower(s[i + k - 1]) = pat[k]

\* String.prototype.startsWith
StartsWith(s, pat) == MatchAt(s, 1, pat)

\* The suffix of s from position i on.
From(s, i) == SubSeq(s, i, Len(s))

\* String.prototype.replace(pat, rep) with a string pattern: the first
\* occurrence only.
ReplaceFirst(s, pat, rep) ==
    LET hits == {i \in 1..Len(s) : MatchAt(s, i, pat)}
    IN  IF hits = {} THEN s
        ELSE LET i == CHOOSE h \in hits : \A g \in hits : h <= g
             IN  SubSeq(s, 1, i - 1) \o rep \o From(s, i + Len(pat))

\* String.prototype.replace(/c/g, rep) for a one-character pattern c.
RECURSIVE ReplaceAllChar(_, _, _)
ReplaceAllChar(s, c, rep) ==
    IF s = <<>> THEN <<>>
    ELSE (IF Head(s) = c THEN rep ELSE <<Head(s)>>) \o ReplaceAllChar(Tail(s), c, rep)

\* The first position >= i of s that holds no white space (Len(s) + 1 if none).
RECURSIVE SkipSpace(_, _)
SkipSpace(s, i) ==
    IF i <= Len(s) /\ IsSpace(s[i]) THEN SkipSpace(s, i + 1) ELSE i

\* String.prototype.trim
RECURSIVE TrimEnd(_)
TrimEnd(s) ==
    IF s # <<>> /\ IsSpace(s[Len(s)]) THEN TrimEnd(SubSeq(s, 1, Len(s) - 1)) ELSE s

Trim(s) == TrimEnd(From(s, SkipSpace(s, 1)))

\* Array.prototype.includes
Includes(seq, x) == \E i \in DOMAIN seq : seq[i] = x

\* Array.prototype.join, on strings
RECURSIVE Join(_, _)
Join(seq, sep) ==
    IF seq = <<>> THEN ""
    ELSE IF Len(seq) = 1 THEN seq[1]
    ELSE seq[1] \o sep \o Join(Tail(seq), sep)

\* Mutant of FilterByPrefix: includes(prefix) in place of startsWith(prefix).
RECURSIVE FilterByPrefix_Anywhere(_, _)
FilterByPrefix_Anywhere(ls, prefix) ==
    IF ls = <<>> THEN <<>>
    ELSE (IF \E i \in 1..Len(Head(ls).name) : MatchAt(Head(ls).name, i, prefix)
          THEN <<Head(ls)>> ELSE <<>>)
             \o FilterByPrefix_Anywhere(Tail(ls), prefix)

\* Array.prototype.filter((l) => l.name.startsWith(prefix)), keeping the order
RECURSIVE FilterByPrefix(_, _)
FilterByPrefix(ls, prefix) ==
    IF ls = <<>> THEN <<>>
    ELSE (IF StartsWith(Head(ls).name, prefix) THEN <<Head(ls)>> ELSE <<>>)
             \o FilterByPrefix(Tail(ls), prefix)

\* The value of a decimal digit; 10 for any other character.
DigitVal(ch) ==
    CASE ch = "0" -> 0 [] ch = "1" -> 1 [] ch = "2" -> 2 [] ch = "3" -> 3
      [] ch = "4" -> 4 [] ch = "5" -> 5 [] ch = "6" -> 6 [] ch = "7" -> 7
      [] ch = "8" -> 8 [] ch = "9" -> 9 [] OTHER -> 10

RECURSIVE ParseDigits(_, _, _)
ParseDigits(s, i, acc) ==
    IF i <= Len(s) /\ DigitVal(s[i]) < 10
    THEN ParseDigits(s, i + 1, acc * 10 + DigitVal(s[i]))
    ELSE acc

\* parseInt(s) with no radix, for texts that do not start with 0x: leading
\* white space is skipped, a sign is read, then the longest run of decimal
\* digits; None stands for NaN (no digit there).
parseInt(s) ==
    LET i    == SkipSpace(s, 1)
        neg  == i <= Len(s) /\ s[i] = "-"
        j    == IF i <= Len(s) /\ s[i] \in {"-", "+"} THEN i + 1 ELSE i
    IN  IF j <= Len(s) /\ DigitVal(s[j]) < 10
        THEN Some((IF neg THEN -1 ELSE 1) * ParseDigits(s, j, 0))
        ELSE None

----------------------------------------------------------------------------
(* GITHUB API *)

GITHUB_OWNER == <<"d", "u", "r", "g", "a", "n", "f", "i", "e", "l", "d", "g", "u", "i", "d", "e">>
GITHUB_REPO == <<"d", "f", "g", "-", "c", "o", "n", "s", "o", "l", "e">>

validQueues == <<"needs-qa", "needs-pm", "dev-queue", "ready-to-merge", "in-flight">>

\* getQueryForQueue: the query text, or the error thrown for an unknown queue.
getQueryForQueue(queue) ==
    LET base == <<"r", "e", "p", "o", ":">> \o GITHUB_OWNER \o <<"/">> \o GITHUB_REPO \o <<"+", "s", "t", "a", "t", "e", ":", "o", "p", "e", "n">>
    IN  CASE queue = "needs-qa" ->
               [ok |-> TRUE, query |-> base \o <<"+", "l", "a", "b", "e", "l", ":", "\"", "n", "e", "e", "d", "s", ":", "q", "a", "\"">>]
          [] queue = "needs-pm" ->
               [ok |-> TRUE, query |-> base \o <<"+", "l", "a", "b", "e", "l", ":", "\"", "n", "e", "e", "d", "s", ":", "p", "m", "\"">>]
          [] queue = "dev-queue" ->
               [ok |-> TRUE, query |-> base \o <<"+", "l", "a", "b", "e", "l", ":", "\"", "s", "t", "a", "t", "u", "s", ":", "r", "e", "a", "d", "y", "\"", "+", "l", "a", "b", "e", "l", ":", "\"", "n", "e", "e", "d", "s", ":", "d", "e", "v", "\"">>]
          [] queue = "ready-to-merge" ->
               [ok |-> TRUE, query |-> base \o <<"+", "l", "a", "b", "e", "l", ":", "\"", "s", "t", "a", "t", "u", "s", ":", "v", "e", "r", "i", "f", "i", "e", "d", "\"">>]
          [] queue = "in-flight" ->
               [ok |-> TRUE, query |-> base \o <<"+", "l", "a", "b", "e", "l", ":", "\"", "s", "t", "a", "t", "u", "s", ":", "i", "n", "-", "p", "r", "o", "g", "r", "e", "s", "s", "\"">>]
          [] OTHER ->
               [ok |-> FALSE, message |-> "Unknown queue type: " \o queue]

\* Mutant of encodeQuery: replace without the g flag, first quote only.
encodeQuery_FirstQuoteOnly(query) == ReplaceFirst(query, <<"\"">>, <<"%", "2", "2">>)

\* Lines 86-87: only the quotes are encoded.
encodeQuery(query) == ReplaceAllChar(query, "\"", <<"%", "2", "2">>)

searchUrl(query) ==
    <<"h", "t", "t", "p", "s", ":", "/", "/", "a", "p", "i", ".", "g", "i", "t", "h", "u", "b", ".", "c", "o", "m", "/", "s", "e", "a", "r", "c", "h", "/", "i", "s", "s", "u", "e", "s", "?", "q", "=">> \o encodeQuery(query)
        \o <<"&", "s", "o", "r", "t", "=", "u", "p", "d", "a", "t", "e", "d", "&", "o", "r", "d", "e", "r", "=", "d", "e", "s", "c", "&", "p", "e", "r", "_", "p", "a", "g", "e", "=", "5", "0">>

\* Lines 89-95: the request fetch() sends.
searchRequest(query, tok) ==
    [url |-> searchUrl(query),
     headers |-> [Authorization |-> "Bearer " \o tok,
                  Accept |-> "application/vnd.github+json",
                  UserAgent |-> "dfg-app"]]

\* Mutant of errorMessage: 429 is not taken for a rate limit.
errorMessage_Only403(status, reset) ==
    IF status = 403
    THEN IF IsSome(reset) /\ Get(reset) # <<>>
         THEN LET n == parseInt(Get(reset))
              IN  IF IsSome(n)
                  THEN "GitHub rate limit exceeded" \o ". Resets at "
                           \o toISOString(Get(n), 0)
                  ELSE "Invalid time value"
         ELSE "GitHub rate limit exceeded"
    ELSE "GitHub API error: " \o ToString(status)

\* Lines 97-120: the message of the Error thrown for a response that is not
\* ok.  reset is the X-RateLimit-Reset header (None when the response has
\* none).  new Date(NaN).toISOString() throws RangeError: Invalid time value.
errorMessage(status, reset) ==
    IF status = 403 \/ status = 429
    THEN IF IsSome(reset) /\ Get(reset) # <<>>
         THEN LET n == parseInt(Get(reset))
              IN  IF IsSome(n)
                  THEN "GitHub rate limit exceeded" \o ". Resets at "
                           \o toISOString(Get(n), 0)
                  ELSE "Invalid time value"
         ELSE "GitHub rate limit exceeded"
    ELSE "GitHub API error: " \o ToString(status)

\* Mutant of rejection: the provider's error body is put in the message.
rejection_WithBody(response, errorText) ==
    errorMessage(response.status, response.reset) \o ": " \o errorText

\* Lines 97-119: the message of the Error thrown for a response that is not
\* ok and whose body reads errorText.  The body is written to the log
\* (lines 99-103) and is no part of the Error.
rejection(response, errorText) == errorMessage(response.status, response.reset)

\* Response.ok
ResponseOk(status) == status >= 200 /\ status <= 299

----------------------------------------------------------------------------
(* HELPER FUNCTIONS *)

\* Mutant of UrlEnd: the class [^\s]+, which lets ")" into the URL.
RECURSIVE UrlEnd_SpaceOnly(_, _)
UrlEnd_SpaceOnly(s, i) ==
    IF i <= Len(s) /\ ~IsSpace(s[i]) THEN UrlEnd_SpaceOnly(s, i + 1) ELSE i

\* The end (exclusive) of the longest run of characters other than white
\* space and ")" that starts at i: the class [^\s)]+.
RECURSIVE UrlEnd(_, _)
UrlEnd(s, i) ==
    IF i <= Len(s) /\ ~IsSpace(s[i]) /\ s[i] # ")" THEN UrlEnd(s, i + 1) ELSE i

\* A match of /(?:preview|deploy)(?:\s+url)?:\s*(https?:\/\/[^\s)]+)/i that
\* starts at position i: the capture group, or None.
PreviewMatchAt(s, i) ==
    LET a == IF MatchAtI(s, i, <<"p", "r", "e", "v", "i", "e", "w">>) THEN i + 7
             ELSE IF MatchAtI(s, i, <<"d", "e", "p", "l", "o", "y">>) THEN i + 6
             ELSE 0
        \* (?:\s+url)? is tried first with the group, then without it
        w == SkipSpace(s, a)
        withUrl == a > 0 /\ w > a /\ MatchAtI(s, w, <<"u", "r", "l">>)
        colonAt(p) == p > 0 /\ p <= Len(s) /\ s[p] = ":"
        c == IF withUrl /\ colonAt(w + 3) THEN w + 3
             ELSE IF colonAt(a) THEN a
             ELSE 0
        h == SkipSpace(s, c + 1)
        u == IF MatchAtI(s, h, <<"h", "t", "t", "p", "s", ":", "/", "/">>) THEN h + 8
             ELSE IF MatchAtI(s, h, <<"h", "t", "t", "p", ":", "/", "/">>) THEN h + 7
             ELSE 0
    IN  IF a > 0 /\ c > 0 /\ u > 0 /\ UrlEnd(s, u) > u
        THEN Some(SubSeq(s, h, UrlEnd(s, u) - 1))
        ELSE None

extractPreviewUrl(body) ==
    LET hits == {i \in 1..Len(body) : IsSome(PreviewMatchAt(body, i))}
    IN  IF hits = {} THEN None
        ELSE PreviewMatchAt(body, CHOOSE h \in hits : \A g \in hits : h <= g)

\* The last position in i..j-1 of s holding a line feed (0 if none).
LastLineFeed(s, i, j) ==
    LET at == {k \in i..(j - 1) : s[k] = "\n"}
    IN  IF at = {} THEN 0 ELSE CHOOSE k \in at : \A g \in at : g <= k

\* The first position p >= i where the rest of s starts with "\n##", or
\* Len(s) + 1: where the lazy group ([\s\S]*?) stops before (?=\n##|$).
BriefEnd(s, i) ==
    LET at == {p \in i..Len(s) : MatchAt(s, p, <<"\n", "#", "#">>)}
    IN  IF at = {} THEN Len(s) + 1 ELSE CHOOSE p \in at : \A g \in at : p <= g

\* A match of /##\s*Agent Brief\s*\n([\s\S]*?)(?=\n##|$)/i that starts at
\* position i: the capture group, or None.  The greedy \s* before \n gives
\* back characters until a line feed follows it, so the \n of the pattern is
\* the last line feed of the run of white space after the heading.
BriefMatchAt(s, i) ==
    LET a  == IF MatchAt(s, i, <<"#", "#">>) THEN SkipSpace(s, i + 2) ELSE 0
        b  == IF a > 0 /\ MatchAtI(s, a, <<"a", "g", "e", "n", "t", " ", "b", "r", "i", "e", "f">>) THEN a + 11 ELSE 0
        e  == IF b > 0 THEN SkipSpace(s, b) ELSE 0
        nl == IF b > 0 THEN LastLineFeed(s, b, e) ELSE 0
    IN  IF nl > 0 THEN Some(SubSeq(s, nl + 1, BriefEnd(s, nl + 1) - 1)) ELSE None

extractAgentBrief(body) ==
    LET hits == {i \in 1..Len(body) : IsSome(BriefMatchAt(body, i))}
    IN  IF hits = {} THEN None
        ELSE LET brief == Trim(Get(BriefMatchAt(body, CHOOSE h \in hits : \A g \in hits : h <= g)))
             IN  IF Len(brief) < 10 THEN None ELSE Some(brief)

----------------------------------------------------------------------------
(* Normalizer *)

LabelNames(ls) == [i \in DOMAIN ls |-> ls[i].name]

normalizeGitHubIssue(issue) ==
    LET labels == [i \in DOMAIN issue.labels |->
                      [name |-> issue.labels[i].name,
                       color |-> issue.labels[i].color,
                       description |-> issue.labels[i].description]]
        body == IF IsSome(issue.body) THEN Get(issue.body) ELSE <<>>
        qa == FilterByPrefix(labels, <<"q", "a", "-", "g", "r", "a", "d", "e", ":">>)
    IN  [type |-> IF IsSome(issue.pull_request) THEN "pr" ELSE "issue",
         number |-> issue.number,
         title |-> issue.title,
         url |-> issue.html_url,
         body |-> body,
         labels |-> labels,
         updatedAt |-> issue.updated_at,
         previewUrl |-> extractPreviewUrl(body),
         statusLabels |-> LabelNames(FilterByPrefix(labels, <<"s", "t", "a", "t", "u", "s", ":">>)),
         needsLabels |-> LabelNames(FilterByPrefix(labels, <<"n", "e", "e", "d", "s", ":">>)),
         qaGrade |-> IF qa = <<>> THEN None
                     ELSE Some(ReplaceFirst(qa[1].name, <<"q", "a", "-", "g", "r", "a", "d", "e", ":">>, <<>>)),
         hasAgentBrief |-> IsSome(extractAgentBrief(body))]

\* Mutant of normalizeAll: the cards come out in reverse order.
normalizeAll_Reversed(items) ==
    [i \in DOMAIN items |-> normalizeGitHubIssue(items[Len(items) + 1 - i])]

\* Line 125: data.items.map(normalizeGitHubIssue)
normalizeAll(items) == [i \in DOMAIN items |-> normalizeGitHubIssue(items[i])]

----------------------------------------------------------------------------
(* The clock *)

\* The amounts by which the clock advances between two steps: one
\* millisecond, and one millisecond less than the time to live.
TickSteps == {1, CACHE_TTL - 1}

Tick(d) ==
    /\ ticks < MaxTicks
    /\ now' = now + d
    /\ ticks' = ticks + 1

----------------------------------------------------------------------------
(* ROUTE HANDLER *)

\* NextResponse.json({error: {code, message}}, {status})
ErrorResponse(status, code, message) ==
    [status |-> status,
     body |-> [error |-> [code |-> code, message |-> message]],
     headers |-> <<>>]

\* Mutant of QueueResponse: the cached flag is always false.
QueueResponse_AlwaysFresh(queue, cards, cached, fetchedAt) ==
    [status |-> 200,
     body |-> [queue |-> queue, cards |-> cards, cached |-> FALSE,
               fetchedAt |-> fetchedAt],
     headers |-> [CacheControl |-> "no-store"]]

\* NextResponse.json(response, {status: 200, headers: {'Cache-Control': 'no-store'}})
QueueResponse(queue, cards, cached, fetchedAt) ==
    [status |-> 200,
     body |-> [queue |-> queue, cards |-> cards, cached |-> cached,
               fetchedAt |-> fetchedAt],
     headers |-> [CacheControl |-> "no-store"]]

\* Mutant of cacheKey: one key for all queues.
cacheKey_Shared(queue) == "github:queue:"

\* A second mutant of cacheKey: the queue parameter alone, with no namespace.
cacheKey_Bare(queue) == queue

\* Line 253
cacheKey(queue) == "github:queue:" \o queue

\* Mutants of the two tests below: only undefined and null count as missing.
tokenMissing_UnsetOnly(tok) == tok = None
queueMissing_NullOnly(param) == param = None

\* Line 202: !token
tokenMissing(tok) == ~(IsSome(tok) /\ Get(tok) # "")

\* Line 219: !queue
queueMissing(param) == ~(IsSome(param) /\ Get(param) # "")

\* A request that has been answered without a provider call.
Answered(param, r) ==
    [queue |-> param, pc |-> "done", fetches |-> 0, sent |-> None,
     response |-> None, resp |-> Some(r)]

\* Lines 199-273, up to the first await: what a GET with queue parameter
\* param does when it arrives at time t with the cache c and the credential
\* tok.  Gives the request's record and the cache it leaves.  On a miss the
\* handler calls fetchGitHubQueue, which builds the query and calls fetch()
\* before it is suspended.
GETArrive(param, c, t, tok) ==
    IF tokenMissing(tok)
    THEN [req |-> Answered(param, ErrorResponse(401, "CONFIG_ERROR",
                                                "GitHub token not configured")),
          cache |-> c]
    ELSE IF queueMissing(param)
    THEN [req |-> Answered(param, ErrorResponse(400, "MISSING_PARAMETER",
                                                "Queue parameter is required")),
          cache |-> c]
    ELSE IF ~Includes(validQueues, Get(param))
    THEN [req |-> Answered(param, ErrorResponse(400, "INVALID_PARAMETER",
                      "Invalid queue type. Must be one of: " \o Join(validQueues, ", "))),
          cache |-> c]
    ELSE LET queue == Get(param)
             got   == getCached(c, cacheKey(queue), t)
         IN  IF IsSome(got.ret)
             THEN [req |-> Answered(param,
                              QueueResponse(queue, Get(got.ret).cards, TRUE,
                                            Get(got.ret).fetchedAt)),
                   cache |-> got.cache]
             ELSE LET q == getQueryForQueue(queue)
                  IN  IF q.ok
                      THEN [req |-> [queue |-> param, pc |-> "awaitFetch", fetches |-> 1,
                                     sent |-> Some(searchRequest(q.query, Get(tok))),
                                     response |-> None, resp |-> None],
                            cache |-> got.cache]
                      ELSE [req |-> Answered(param,
                                       ErrorResponse(502, "GITHUB_ERROR", q.message)),
                            cache |-> got.cache]

\* Mutant of the catch block: the failure is answered 500.
Caught_Status500(r, message) ==
    [r EXCEPT !.pc = "done",
              !.resp = Some(ErrorResponse(500, "GITHUB_ERROR", message))]

\* Lines 290-303: the catch block, for a thrown Error with this message.
Caught(r, message) ==
    [r EXCEPT !.pc = "done",
              !.resp = Some(ErrorResponse(502, "GITHUB_ERROR", message))]

----------------------------------------------------------------------------
(* The inputs of a run *)

\* process.env.GITHUB_TOKEN: not set, set to the empty string, or set.
Tokens == {None, Some(""), Some("ghp_secret")}

\* The queue parameter of a request: absent, empty, not a queue, or a queue.
QueueParams ==
    {None, Some(""), Some("bogus"), Some("needs-qa"), Some("dev-queue")}

RawItemA ==
    [number |-> 7, title |-> "Fix cache",
     html_url |-> "https://github.com/durganfieldguide/dfg-console/issues/7",
     body |-> Some(<<"D", "e", "p", "l", "o", "y", ":", " ", "h", "t", "t", "p", ":", "/", "/", "a", ".", "b">>),
     labels |-> <<[name |-> <<"s", "t", "a", "t", "u", "s", ":", "r", "e", "a", "d", "y">>, color |-> "0e8a16", description |-> None],
                  [name |-> <<"q", "a", "-", "g", "r", "a", "d", "e", ":", "A">>, color |-> "fbca04", description |-> Some("grade")]>>,
     updated_at |-> "2024-01-02T03:04:05Z",
     pull_request |-> None]

RawItemB ==
    [number |-> 9, title |-> "Add queue",
     html_url |-> "https://github.com/durganfieldguide/dfg-console/pull/9",
     body |-> None,
     labels |-> <<[name |-> <<"n", "e", "e", "d", "s", ":", "q", "a">>, color |-> "d93f0b", description |-> None]>>,
     updated_at |-> "2024-01-03T00:00:00Z",
     pull_request |-> Some("https://api.github.com/repos/durganfieldguide/dfg-console/pulls/9")]

\* The item lists a successful search returns.
ItemLists == {<<>>, <<RawItemB, RawItemA>>}

\* The responses of the provider: status and X-RateLimit-Reset header.
Responses == {[status |-> 200, reset |-> None],
              [status |-> 403, reset |-> Some(<<"1", "7", "0", "0", "0", "0", "0", "0", "0", "0">>)],
              [status |-> 500, reset |-> None]}

\* The bodies of the provider's responses that are not ok.
ErrorTexts == {"{\"message\":\"Bad credentials\"}", "{\"message\":\"API rate limit exceeded\"}"}

\* Errors fetch() and response.json() reject with.
FetchErrors == {"fetch failed"}
JsonErrors == {"Unexpected end of JSON input"}

----------------------------------------------------------------------------
(* The requests of a run *)

\* call: the last call made (op, key, the value returned, the cache before it,
\* the time of the call), the number of calls so far, and for every key the
\* payload and time of the latest setCache for it.
NoCall ==
    [n |-> 0, op |-> "none", key |-> "", ret |-> None, before |-> <<>>, at |-> 0,
     last |-> <<>>]

Init ==
    /\ now = 0
    /\ ticks = 0
    /\ token \in Tokens
    /\ cache = <<>>
    /\ reqs = <<>>
    /\ writes = <<>>
    /\ call = NoCall

\* History kept with each request, for the claims: the number of the cache
\* write it made (wrote, 0 for none), and whether the provider leaves its
\* fetch unanswered for ever (hangs).
History(hangs) == [wrote |-> 0, hangs |-> hangs]

\* Mutant of ArriveUpTo: a request that misses while another request for the
\* same queue is awaiting the provider makes no provider request of its own
\* and waits for that one's.
ArriveUpTo_Coalesce(param, hangs, max) ==
    /\ Len(reqs) < max
    /\ LET r == GETArrive(param, cache, now, token)
           shared == r.req.pc = "awaitFetch"
                       /\ \E i \in DOMAIN reqs : reqs[i].pc = "awaitFetch"
                                                  /\ reqs[i].queue = param
       IN  /\ reqs' = Append(reqs, (IF shared
                                    THEN [r.req EXCEPT !.fetches = 0, !.sent = None]
                                    ELSE r.req) @@ History(hangs))
           /\ cache' = r.cache
    /\ UNCHANGED <<now, ticks, token, writes, call>>

\* A GET request arrives and runs to its response or to its first await.
ArriveUpTo(param, hangs, max) ==
    /\ Len(reqs) < max
    /\ LET r == GETArrive(param, cache, now, token)
       IN  /\ reqs' = Append(reqs, r.req @@ History(hangs))
           /\ cache' = r.cache
    /\ UNCHANGED <<now, ticks, token, writes, call>>

Arrive(param, hangs) == ArriveUpTo(param, hangs, MaxReqs)

\* Mutant of fetchPending: provider calls are made one at a time, in the
\* order the requests arrived, each after the one before it has settled.
fetchPending_Serial(i) ==
    /\ reqs[i].pc = "awaitFetch"
    /\ ~reqs[i].hangs
    /\ \A j \in 1..(i - 1) : reqs[j].pc # "awaitFetch"

\* Line 89: request i is suspended at await fetch(), and the provider will
\* settle this fetch.  Nothing else holds a request back.
fetchPending(i) ==
    /\ reqs[i].pc = "awaitFetch"
    /\ ~reqs[i].hangs

\* Line 89: fetch() resolves with the provider's response.
FetchResolve(i, response) ==
    /\ fetchPending(i)
    /\ reqs' = [reqs EXCEPT ![i].response = Some(response),
                            ![i].pc = IF ResponseOk(response.status)
                                      THEN "awaitJson" ELSE "awaitText"]
    /\ UNCHANGED <<now, ticks, token, cache, writes, call>>

\* Line 89: fetch() rejects; the error reaches the catch block of GET.
FetchReject(i, message) ==
    /\ fetchPending(i)
    /\ reqs' = [reqs EXCEPT ![i] = Caught(@, message)]
    /\ UNCHANGED <<now, ticks, token, cache, writes, call>>

\* Lines 98-119: the body of a response that is not ok has been read; the
\* error thrown reaches the catch block of GET.
TextResolve(i) ==
    /\ reqs[i].pc = "awaitText"
    /\ \E errorText \in ErrorTexts :
          reqs' = [reqs EXCEPT ![i] = Caught(@, rejection(Get(@.response), errorText))]
    /\ UNCHANGED <<now, ticks, token, cache, writes, call>>

\* Lines 122-125 and 274-289: the body has been parsed; the items are
\* normalized, the result is stored and returned.  The clock is read twice
\* (line 274, then line 36) and may advance by d in between.
JsonResolve(i, items, d) ==
    /\ reqs[i].pc = "awaitJson"
    /\ d = 0 \/ ticks < MaxTicks
    /\ \E cards \in {normalizeAll(items)}, fetchedAt \in {nowISO(now)} :
         LET queue == Get(reqs[i].queue)
         IN  /\ cache' = setCache(cache, cacheKey(queue),
                                  [cards |-> cards, fetchedAt |-> fetchedAt], now + d)
             /\ writes' = Append(writes, [key |-> cacheKey(queue), by |-> i,
                                          read |-> now, at |-> now + d,
                                          items |-> items])
             /\ reqs' = [reqs EXCEPT ![i].pc = "done",
                                     ![i].wrote = Len(writes) + 1,
                                     ![i].resp = Some(QueueResponse(queue, cards, FALSE,
                                                                    fetchedAt))]
    /\ now' = now + d
    /\ ticks' = ticks + d
    /\ UNCHANGED <<token, call>>

\* Line 122: response.json() rejects; the error reaches the catch block.
JsonReject(i, message) ==
    /\ reqs[i].pc = "awaitJson"
    /\ reqs' = [reqs EXCEPT ![i] = Caught(@, message)]
    /\ UNCHANGED <<now, ticks, token, cache, writes, call>>

\* Time passes between two steps.
ClockTick ==
    /\ \E d \in TickSteps : Tick(d)
    /\ UNCHANGED <<token, cache, reqs, writes, call>>

Next ==
    \/ \E param \in QueueParams : Arrive(param, FALSE)
    \/ \E i \in DOMAIN reqs, response \in Responses : FetchResolve(i, response)
    \/ \E i \in DOMAIN reqs, message \in FetchErrors : FetchReject(i, message)
    \/ \E i \in DOMAIN reqs : TextResolve(i)
    \/ \E i \in DOMAIN reqs, items \in ItemLists, d \in {0, 1} : JsonResolve(i, items, d)
    \/ \E i \in DOMAIN reqs, message \in JsonErrors : JsonReject(i, message)
    \/ ClockTick

Spec == Init /\ [][Next]_vars

\* The same run on a process whose environment changes while it serves:
\* line 201 reads process.env.GITHUB_TOKEN anew for every request.
SetToken(tok) ==
    /\ tok # token
    /\ token' = tok
    /\ UNCHANGED <<now, ticks, cache, reqs, writes, call>>

NextEnv ==
    \/ Next
    \/ \E tok \in Tokens : SetToken(tok)

SpecEnv == Init /\ [][NextEnv]_vars

\* A run of overlapping requests for one queue.
NextOverlap ==
    \/ ArriveUpTo(Some("needs-qa"), FALSE, MaxOverlapReqs)
    \/ \E i \in DOMAIN reqs, response \in Responses : FetchResolve(i, response)
    \/ \E i \in DOMAIN reqs, message \in FetchErrors : FetchReject(i, message)
    \/ \E i \in DOMAIN reqs : TextResolve(i)
    \/ \E i \in DOMAIN reqs, items \in ItemLists, d \in {0, 1} : JsonResolve(i, items, d)
    \/ \E i \in DOMAIN reqs, message \in JsonErrors : JsonReject(i, message)
    \/ ClockTick

SpecOverlap == Init /\ [][NextOverlap]_vars

\* A run that tries every kind of provider response on a few requests.
ClientStatuses == {200, 203, 304, 403, 404, 429, 500}
\* X-RateLimit-Reset as the provider documents it: absent, or the reset time
\* in whole seconds since the epoch.
ClientResets == {None, Some(<<"1", "7", "0", "0", "0", "0", "0", "0", "0", "0">>), Some(<<"0">>)}
ClientResponses == [status : ClientStatuses, reset : ClientResets]

NextClient ==
    \/ \E param \in QueueParams : ArriveUpTo(param, FALSE, MaxClientReqs)
    \/ \E i \in DOMAIN reqs, response \in ClientResponses : FetchResolve(i, response)
    \/ \E i \in DOMAIN reqs, message \in FetchErrors : FetchReject(i, message)
    \/ \E i \in DOMAIN reqs : TextResolve(i)
    \/ \E i \in DOMAIN reqs, items \in ItemLists, d \in {0, 1} : JsonResolve(i, items, d)
    \/ \E i \in DOMAIN reqs, message \in JsonErrors : JsonReject(i, message)

SpecClient == Init /\ [][NextClient]_vars

\* A run where the provider may leave a request's fetch unanswered for ever,
\* and answers every other one: once a promise settles, the event loop runs
\* the continuation that awaits it.
Progress(i) ==
    /\ i \in DOMAIN reqs
    /\ \/ \E response \in Responses : FetchResolve(i, response)
       \/ \E message \in FetchErrors : FetchReject(i, message)
       \/ TextResolve(i)
       \/ \E items \in ItemLists, d \in {0, 1} : JsonResolve(i, items, d)
       \/ \E message \in JsonErrors : JsonReject(i, message)

NextHang ==
    \/ \E param \in {Some("needs-qa"), Some("dev-queue")}, hangs \in BOOLEAN :
          ArriveUpTo(param, hangs, MaxReqs)
    \/ \E i \in DOMAIN reqs : Progress(i)

SpecHang ==
    Init /\ [][NextHang]_vars /\ \A i \in 1..(MaxReqs + 1) : WF_vars(Progress(i))

----------------------------------------------------------------------------
(* The cache on its own: getCached and setCache called directly, as a unit *)
(* test of lines 23-37 would, with the clock advancing in between.         *)

HKeys == {"github:queue:needs-qa", "github:queue:needs-pm"}
HPayloads == {[cards |-> <<>>, fetchedAt |-> "A"], [cards |-> <<>>, fetchedAt |-> "B"]}

InitCache ==
    /\ now = 0
    /\ ticks = 0
    /\ token = None
    /\ cache = <<>>
    /\ reqs = <<>>
    /\ writes = <<>>
    /\ call = NoCall

CallGetCached(key) ==
    /\ call.n < MaxCalls
    /\ LET r == getCached(cache, key, now)
       IN  /\ cache' = r.cache
           /\ call' = [call EXCEPT !.n = @ + 1, !.op = "get", !.key = key,
                                   !.ret = r.ret, !.before = cache, !.at = now]
    /\ UNCHANGED <<now, ticks, token, reqs, writes>>

CallSetCache(key, data) ==
    /\ call.n < MaxCalls
    /\ cache' = setCache(cache, key, data, now)
    /\ call' = [call EXCEPT !.n = @ + 1, !.op = "set", !.key = key,
                            !.ret = None, !.before = cache, !.at = now,
                            !.last = CacheSet(@, key, [data |-> data, at |-> now])]
    /\ UNCHANGED <<now, ticks, token, reqs, writes>>

CacheTick ==
    /\ \E d \in TickSteps : Tick(d)
    /\ UNCHANGED <<token, cache, reqs, writes, call>>

NextCache ==
    \/ \E key \in HKeys : CallGetCached(key)
    \/ \E key \in HKeys, data \in HPayloads : CallSetCache(key, data)
    \/ CacheTick

SpecCache == InitCache /\ [][NextCache]_vars

----------------------------------------------------------------------------
(* The query builder on its own: fetchGitHubQueue called directly with any  *)
(* identifier, up to the request it hands to fetch() (lines 84-95), beside  *)
(* requests that arrive at the handler and whose fetch is refused.          *)

\* QueueType, and identifiers outside it.
QueueIds ==
    {"needs-qa", "needs-pm", "dev-queue", "ready-to-merge", "in-flight",
     "bogus", "", "NEEDS-QA"}

CallFetchGitHubQueue(queue, tok) ==
    /\ call.n < MaxCalls
    /\ LET q == getQueryForQueue(queue)
       IN  call' = [call EXCEPT
                       !.n = @ + 1, !.op = "fetchGitHubQueue", !.key = queue,
                       !.ret = IF q.ok
                               THEN Some([ok |-> TRUE, sent |-> searchRequest(q.query, tok)])
                               ELSE Some([ok |-> FALSE, message |-> q.message]),
                       !.before = cache, !.at = now]
    /\ UNCHANGED <<now, ticks, token, cache, reqs, writes>>

NextQuery ==
    \/ \E queue \in QueueIds : ArriveUpTo(Some(queue), FALSE, MaxReqs)
    \/ \E i \in DOMAIN reqs, message \in FetchErrors : FetchReject(i, message)
    \/ \E queue \in QueueIds : CallFetchGitHubQueue(queue, "ghp_secret")

SpecQuery == Init /\ [][NextQuery]_vars

----------------------------------------------------------------------------
(* The normalizer on its own: normalizeGitHubIssue called on one raw item.  *)

\* The bodies of raw items: null, empty, and texts with and without a
\* preview link or an Agent Brief section.
Bodies ==
    {None,
     Some(<<>>),
     Some(<<"n", "o", " ", "h", "e", "a", "d", "i", "n", "g", " ", "h", "e", "r", "e">>),
     Some(<<"P", "r", "e", "v", "i", "e", "w", ":", " ", "h", "t", "t", "p", "s", ":", "/", "/", "e", ".", "c", "o", "/", "x", "\n", "m", "o", "r", "e">>),
     Some(<<"(", "d", "e", "p", "l", "o", "y", " ", " ", "u", "r", "l", ":", "h", "t", "t", "p", ":", "/", "/", "a", ".", "b", ")", " ", "o", "k">>),
     Some(<<"P", "r", "e", "v", "i", "e", "w", "u", "r", "l", ":", " ", "h", "t", "t", "p", ":", "/", "/", "a", ".", "b">>),
     Some(<<"P", "R", "E", "V", "I", "E", "W", " ", "U", "R", "L", ":", " ", "H", "T", "T", "P", "S", ":", "/", "/", "A", ".", "B">>),
     Some(<<"p", "r", "e", "v", "i", "e", "w", ":", " ", "f", "t", "p", ":", "/", "/", "a", ".", "b">>),
     Some(<<"D", "e", "p", "l", "o", "y", ":", " ", "h", "t", "t", "p", ":", "/", "/", "a", ".", "b", " ", "p", "r", "e", "v", "i", "e", "w", ":", "\t", "h", "t", "t", "p", "s", ":", "/", "/", "c", ".", "d">>),
     Some(<<"p", "r", "e", "v", "i", "e", "w", ":", " ", "h", "t", "t", "p", "s", ":", "/", "/", " ", "x">>),
     Some(<<"#", "#", " ", "A", "g", "e", "n", "t", " ", "B", "r", "i", "e", "f", "\n", "T", "h", "i", "s", " ", "i", "s", " ", "a", " ", "l", "o", "n", "g", " ", "b", "r", "i", "e", "f", ".", "\n", "#", "#", " ", "O", "t", "h", "e", "r">>),
     Some(<<"#", "#", " ", "A", "g", "e", "n", "t", " ", "B", "r", "i", "e", "f", "\n", "s", "h", "o", "r", "t">>),
     Some(<<"#", "#", " ", "A", "g", "e", "n", "t", " ", "B", "r", "i", "e", "f", "\n", "#", "#", " ", "O", "t", "h", "e", "r", " ", "h", "e", "a", "d", "i", "n", "g">>),
     Some(<<"#", "#", " ", "a", "g", "e", "n", "t", " ", "b", "r", "i", "e", "f", " ", "\n", "\n", " ", "0", "1", "2", "3", "4", "5", "6", "7", "8", "9", " ">>),
     Some(<<"#", "#", "A", "g", "e", "n", "t", " ", "B", "r", "i", "e", "f", "\n", "1", "2", "3", "4", "5", "6", "7", "8", "9", "\n">>)}

Label(name) == [name |-> name, color |-> "ededed", description |-> None]

\* The label lists of raw items.
LabelLists ==
    {<<>>,
     <<Label(<<"s", "t", "a", "t", "u", "s", ":", "r", "e", "a", "d", "y">>), Label(<<"n", "e", "e", "d", "s", ":", "d", "e", "v">>), Label(<<"q", "a", "-", "g", "r", "a", "d", "e", ":", "A">>)>>,
     <<Label(<<"q", "a", "-", "g", "r", "a", "d", "e", ":", "B">>), Label(<<"S", "t", "a", "t", "u", "s", ":", "r", "e", "a", "d", "y">>), Label(<<"n", "e", "e", "d", "s", ":", "q", "a">>),
       Label(<<"q", "a", "-", "g", "r", "a", "d", "e", ":", "A">>), Label(<<"n", "e", "e", "d", "s", ":", "d", "e", "v">>)>>,
     <<Label(<<"b", "u", "g">>), Label(<<"x", "s", "t", "a", "t", "u", "s", ":", "a">>), Label(<<"s", "t", "a", "t", "u", "s", ":">>), Label(<<"n", "e", "e", "d", "s">>)>>,
     <<Label(<<"q", "a", "-", "g", "r", "a", "d", "e", ":", "q", "a", "-", "g", "r", "a", "d", "e", ":", "C">>)>>,
     <<Label(<<"n", "e", "e", "d", "s", ":", "z">>), Label(<<"s", "t", "a", "t", "u", "s", ":", "y">>), Label(<<"n", "e", "e", "d", "s", ":", "a">>), Label(<<"s", "t", "a", "t", "u", "s", ":", "b">>)>>}

\* The pull-request marker of a raw item: absent, or the object with its url.
PullRequests == {None, Some("https://api.github.com/repos/durganfieldguide/dfg-console/pulls/3")}

RawItem(body, labels, pr) ==
    [body |-> body, labels |-> labels, pull_request |-> pr,
     number |-> 3, title |-> "Item",
     html_url |-> "https://github.com/durganfieldguide/dfg-console/issues/3",
     updated_at |-> "2024-02-01T00:00:00Z"]

\* The lists of at most MaxItems items a response carries.
ListItems == {RawItemA, RawItemB}
RECURSIVE ListsUpTo(_)
ListsUpTo(n) ==
    IF n = 0 THEN {<<>>}
    ELSE ListsUpTo(n - 1)
           \cup {Append(l, x) : l \in {m \in ListsUpTo(n - 1) : Len(m) = n - 1},
                                x \in ListItems}

CallNormalizeGitHubIssue(issue) ==
    /\ call.n < MaxCalls
    /\ call' = [call EXCEPT !.n = @ + 1, !.op = "normalizeGitHubIssue",
                            !.key = issue, !.ret = Some(normalizeGitHubIssue(issue)),
                            !.before = cache, !.at = now]
    /\ UNCHANGED <<now, ticks, token, cache, reqs, writes>>

NextNormalize ==
    \E body \in Bodies, labels \in LabelLists, pr \in PullRequests :
        CallNormalizeGitHubIssue(RawItem(body, labels, pr))

SpecNormalize == InitCache /\ [][NextNormalize]_vars

\* Requests for one queue whose provider call succeeds, with any list of at
\* most MaxItems items in the response.
OkResponse == [status |-> 200, reset |-> None]

NextItems ==
    \/ ArriveUpTo(Some("needs-qa"), FALSE, MaxReqs)
    \/ \E i \in DOMAIN reqs : FetchResolve(i, OkResponse)
    \/ \E i \in DOMAIN reqs, items \in ListsUpTo(MaxItems), d \in {0, 1} :
          JsonResolve(i, items, d)

SpecItems == Init /\ [][NextItems]_vars

----------------------------------------------------------------------------
(* Two processes side by side.  They are given the same requests at the     *)
(* same instants and the same provider responses (status, headers, items)   *)
(* in the same order, and differ in the credential they are configured      *)
(* with and in the text of the provider's error bodies.  The first process  *)
(* is in token, cache and reqs; call holds the second one's token, cache    *)
(* and reqs, and the error bodies both were last given.                     *)

OtherTokens == {Some("ghp_other"), Some("x")}

InitTwin ==
    /\ now = 0
    /\ ticks = 0
    /\ token = Some("ghp_secret")
    /\ cache = <<>>
    /\ reqs = <<>>
    /\ writes = <<>>
    /\ call \in [token : OtherTokens, cache : {<<>>}, reqs : {<<>>}, texts : {<<>>}]

\* Both processes have received request i and hold it at the same await.
BothAt(i, pc) ==
    /\ i \in DOMAIN call.reqs
    /\ reqs[i].pc = pc
    /\ call.reqs[i].pc = pc

TwinArrive(param) ==
    /\ Len(reqs) < MaxReqs
    /\ Len(call.reqs) = Len(reqs)
    /\ LET r == GETArrive(param, cache, now, token)
           o == GETArrive(param, call.cache, now, call.token)
       IN  /\ reqs' = Append(reqs, r.req @@ History(FALSE))
           /\ cache' = r.cache
           /\ call' = [call EXCEPT !.reqs = Append(@, o.req @@ History(FALSE)),
                                   !.cache = o.cache]
    /\ UNCHANGED <<now, ticks, token, writes>>

TwinFetchResolve(i, response) ==
    /\ fetchPending(i)
    /\ BothAt(i, "awaitFetch")
    /\ LET pc == IF ResponseOk(response.status) THEN "awaitJson" ELSE "awaitText"
       IN  /\ reqs' = [reqs EXCEPT ![i].response = Some(response), ![i].pc = pc]
           /\ call' = [call EXCEPT !.reqs[i].response = Some(response),
                                   !.reqs[i].pc = pc]
    /\ UNCHANGED <<now, ticks, token, cache, writes>>

TwinFetchReject(i, message) ==
    /\ fetchPending(i)
    /\ BothAt(i, "awaitFetch")
    /\ reqs' = [reqs EXCEPT ![i] = Caught(@, message)]
    /\ call' = [call EXCEPT !.reqs[i] = Caught(@, message)]
    /\ UNCHANGED <<now, ticks, token, cache, writes>>

TwinTextResolve(i, errorText, otherText) ==
    /\ BothAt(i, "awaitText")
    /\ reqs' = [reqs EXCEPT ![i] = Caught(@, rejection(Get(@.response), errorText))]
    /\ call' = [call EXCEPT
                    !.reqs[i] = Caught(@, rejection(Get(@.response), otherText)),
                    !.texts = <<errorText, otherText>>]
    /\ UNCHANGED <<now, ticks, token, cache, writes>>

TwinJsonResolve(i, items, d) ==
    /\ BothAt(i, "awaitJson")
    /\ d = 0 \/ ticks < MaxTicks
    /\ \E cards \in {normalizeAll(items)}, fetchedAt \in {nowISO(now)} :
         LET queue == Get(reqs[i].queue)
             data  == [cards |-> cards, fetchedAt |-> fetchedAt]
             resp  == Some(QueueResponse(queue, cards, FALSE, fetchedAt))
         IN  /\ cache' = setCache(cache, cacheKey(queue), data, now + d)
             /\ writes' = Append(writes, [key |-> cacheKey(queue), by |-> i,
                                          read |-> now, at |-> now + d,
                                          items |-> items])
             /\ reqs' = [reqs EXCEPT ![i].pc = "done",
                                     ![i].wrote = Len(writes) + 1,
                                     ![i].resp = resp]
             /\ call' = [call EXCEPT
                             !.cache = setCache(@, cacheKey(queue), data, now + d),
                             !.reqs[i].pc = "done",
                             !.reqs[i].wrote = Len(writes) + 1,
                             !.reqs[i].resp = resp]
    /\ now' = now + d
    /\ ticks' = ticks + d
    /\ UNCHANGED token

TwinJsonReject(i, message) ==
    /\ BothAt(i, "awaitJson")
    /\ reqs' = [reqs EXCEPT ![i] = Caught(@, message)]
    /\ call' = [call EXCEPT !.reqs[i] = Caught(@, message)]
    /\ UNCHANGED <<now, ticks, token, cache, writes>>

ClockTickTwin ==
    /\ \E d \in TickSteps : Tick(d)
    /\ UNCHANGED <<token, cache, reqs, writes, call>>

NextTwin ==
    \/ \E param \in {Some("bogus"), Some("needs-qa")} : TwinArrive(param)
    \/ \E i \in DOMAIN reqs, response \in Responses : TwinFetchResolve(i, response)
    \/ \E i \in DOMAIN reqs, message \in FetchErrors : TwinFetchReject(i, message)
    \/ \E i \in DOMAIN reqs, errorText \in ErrorTexts, otherText \in ErrorTexts :
          TwinTextResolve(i, errorText, otherText)
    \/ \E i \in DOMAIN reqs, items \in ItemLists, d \in {0, 1} : TwinJsonResolve(i, items, d)
    \/ \E i \in DOMAIN reqs, message \in JsonErrors : TwinJsonReject(i, message)
    \/ ClockTickTwin

SpecTwin == InitTwin /\ [][NextTwin]_vars

----------------------------------------------------------------------------
(* Requests with every queue parameter: absent, a string that is no queue,  *)
(* and each of the five queues; the provider call succeeds or fetch fails.  *)

AllParams ==
    {None, Some("bogus"), Some("needs-qa"), Some("needs-pm"), Some("dev-queue"),
     Some("ready-to-merge"), Some("in-flight")}

NextQueues ==
    \/ \E param \in AllParams : Arrive(param, FALSE)
    \/ \E i \in DOMAIN reqs : FetchResolve(i, OkResponse)
    \/ \E i \in DOMAIN reqs, message \in FetchErrors : FetchReject(i, message)
    \/ \E i \in DOMAIN reqs : JsonResolve(i, <<RawItemB, RawItemA>>, 0)
    \/ ClockTick

SpecQueues == Init /\ [][NextQueues]_vars

----------------------------------------------------------------------------
(* The life of one queue's entry: requests for one queue whose provider     *)
(* call succeeds, with time passing between the steps.                      *)

NextWindow ==
    \/ ArriveUpTo(Some("needs-qa"), FALSE, MaxOverlapReqs)
    \/ \E i \in DOMAIN reqs : FetchResolve(i, OkResponse)
    \/ \E i \in DOMAIN reqs, items \in ItemLists, d \in {0, 1} : JsonResolve(i, items, d)
    \/ ClockTick

SpecWindow == Init /\ [][NextWindow]_vars

----------------------------------------------------------------------------
(* Claims about the cache on its own *)

\* C2: getCached(key) returns the stored payload if and only if an entry
\* exists for key and now - entry.timestamp < 60000 ms (an entry aged exactly
\* 60000 ms is expired); otherwise it returns no entry, and the key is no
\* longer in the cache after the call.  Every other key is left as it was.
C2_GetCachedContract ==
    call.op = "get" =>
        LET had   == call.key \in DOMAIN call.before
            fresh == had /\ call.at - call.before[call.key].timestamp < 60000
        IN  /\ fresh => /\ call.ret = Some(call.before[call.key].data)
                        /\ cache = call.before
            /\ ~fresh => /\ call.ret = None
                         /\ call.key \notin DOMAIN cache
                         /\ DOMAIN cache = DOMAIN call.before \ {call.key}
                         /\ \A k \in DOMAIN cache : cache[k] = call.before[k]

\* C2 witnesses: a read of an entry aged exactly 59999 ms returned it, and a
\* read of an entry aged exactly 60000 ms returned nothing and removed it.
C2_Witness ==
    /\ call.op = "get"
    /\ call.key \in DOMAIN call.before
    /\ call.at - call.before[call.key].timestamp = 60000
    /\ call.ret = None
    /\ call.key \notin DOMAIN cache

C2_WitnessFresh ==
    /\ call.op = "get"
    /\ call.key \in DOMAIN call.before
    /\ call.at - call.before[call.key].timestamp = 59999
    /\ IsSome(call.ret)

\* C3: a getCached(k) made less than the TTL after the latest setCache(k, v)
\* returns that v; a getCached(k) made once the TTL has elapsed since the
\* latest setCache(k, _) returns no entry and leaves no entry for k, so every
\* later getCached(k) finds nothing either.
C3_RoundTrip ==
    (call.op = "get" /\ call.key \in DOMAIN call.last) =>
        LET set == call.last[call.key]
        IN  IF call.at - set.at < CACHE_TTL
            THEN call.ret = Some(set.data)
            ELSE call.ret = None /\ call.key \notin DOMAIN cache

\* C3 witness: the second of two reads made after the TTL elapsed: the first
\* one had already evicted the entry, and the key had been set twice.
C3_Witness ==
    /\ call.op = "get"
    /\ call.key \in DOMAIN call.last
    /\ call.at - call.last[call.key].at >= CACHE_TTL
    /\ call.key \notin DOMAIN call.before
    /\ call.ret = None

C3_WitnessReplaced ==
    /\ call.op = "get"
    /\ call.key \in DOMAIN call.last
    /\ call.n >= 3
    /\ call.ret = Some([cards |-> <<>>, fetchedAt |-> "B"])
    /\ call.at > call.last[call.key].at

----------------------------------------------------------------------------
(* Claims about the route handler *)

\* What the claims read.
TheQueues == {"needs-qa", "needs-pm", "dev-queue", "ready-to-merge", "in-flight"}
KeyOf(q) ==
    CASE q = "needs-qa" -> "github:queue:needs-qa"
      [] q = "needs-pm" -> "github:queue:needs-pm"
      [] q = "dev-queue" -> "github:queue:dev-queue"
      [] q = "ready-to-merge" -> "github:queue:ready-to-merge"
      [] q = "in-flight" -> "github:queue:in-flight"
TokenSet == token # None /\ token # Some("")
ForQueue(r) == r.queue # None /\ Get(r.queue) \in TheQueues
Arriving == Len(reqs') = Len(reqs) + 1
New == reqs'[Len(reqs')]
Status(r) == Get(r.resp).status
Body(r) == Get(r.resp).body
\* Request i is answered by this step, having waited for the provider.
Completing(i) == reqs[i].pc # "done" /\ reqs'[i].pc = "done"
\* The cache writes for queue q that are less than 60 s old at time t.
FreshWrites(q, t) ==
    {w \in DOMAIN writes : writes[w].key = KeyOf(q) /\ t - writes[w].at < 60000}
Latest(ws) == CHOOSE w \in ws : \A v \in ws : v <= w
\* The request that made cache write w.
Writer(w) == reqs[writes[w].by]

\* What a request for a queue does when it arrives with the credential set
\* and no write for the queue is less than 60 s old: one provider request.
MissFetchesOnce ==
    (Arriving /\ TokenSet /\ ForQueue(New) /\ FreshWrites(Get(New.queue), now) = {})
        => New.pc = "awaitFetch" /\ New.fetches = 1
\* What the request whose provider call succeeds answers, and that it made
\* one provider request in all.
SuccessAnswersFresh ==
    \A i \in DOMAIN reqs :
        (Completing(i) /\ reqs[i].pc = "awaitJson" /\ Len(writes') > Len(writes))
            => /\ Status(reqs'[i]) = 200
               /\ Body(reqs'[i]).cached = FALSE
               /\ reqs'[i].fetches = 1
\* The arriving request is served from the cache what request r answered.
ServedWhat(r) ==
    /\ New.pc = "done"
    /\ Status(New) = 200
    /\ Body(New).cached = TRUE
    /\ Body(New).cards = Body(r).cards
    /\ Body(New).fetchedAt = Body(r).fetchedAt
    /\ New.fetches = 0

\* C1 as stated: a request for a valid queue that finds no valid entry makes
\* exactly one provider request and, the provider succeeding, answers 200
\* with cached=false; any later request for the same queue that arrives less
\* than 60 s after that entry was stored answers 200 with cached=true, the
\* cards and fetchedAt of that first answer, and makes no provider request.
C1_AsStated ==
    [][/\ MissFetchesOnce
       /\ SuccessAnswersFresh
       /\ (Arriving /\ TokenSet /\ ForQueue(New))
            => \A w \in FreshWrites(Get(New.queue), now) : ServedWhat(Writer(w))]_vars

\* C1 amended: ... any later request for the same queue that arrives less
\* than 60 s after that entry was stored answers 200 with cached=true and
\* makes no provider request; its cards and fetchedAt are those of the latest
\* answer with cached=false stored for the queue, which is that first answer
\* unless an overlapping request for the queue stored its own result since.
C1_CacheHitServesLatestStore ==
    [][/\ MissFetchesOnce
       /\ SuccessAnswersFresh
       /\ (Arriving /\ TokenSet /\ ForQueue(New)
             /\ FreshWrites(Get(New.queue), now) # {})
            => LET w == Latest({v \in DOMAIN writes : writes[v].key = KeyOf(Get(New.queue))})
               IN  /\ w \in FreshWrites(Get(New.queue), now)
                   /\ ServedWhat(Writer(w))]_vars

\* C1 witness: two overlapping requests for a queue each stored a different
\* result, and a third one was then served the later of the two.
C1_Witness ==
    \E i, j, k \in DOMAIN reqs :
        /\ i # j /\ k > i /\ k > j
        /\ reqs[i].queue = reqs[k].queue /\ reqs[j].queue = reqs[k].queue
        /\ reqs[i].wrote > 0 /\ reqs[j].wrote > reqs[i].wrote
        /\ reqs[k].pc = "done" /\ Status(reqs[k]) = 200 /\ Body(reqs[k]).cached
        /\ Body(reqs[k]).cards = Body(reqs[j]).cards
        /\ Body(reqs[k]).cards # Body(reqs[i]).cards
        /\ reqs[k].fetches = 0

\* C4: in every 200 response the cached flag and fetchedAt are faithful.
\* cached=true exactly when the handler made no provider request for it and
\* the cards came from a cache entry; then fetchedAt (and the cards) are those
\* answered, with cached=false, by the request whose fetch made that entry,
\* i.e. the time that request read when its fetch had completed.  With
\* cached=false the handler made one provider request and fetchedAt is the
\* time read as this request's own fetch completed.
C4_CachedFlagFaithful ==
    [][/\ (Arriving /\ New.pc = "done" /\ Status(New) = 200)
            => LET ws == {w \in DOMAIN writes : writes[w].key = KeyOf(Get(New.queue))}
               IN  /\ Body(New).cached = TRUE
                   /\ New.fetches = 0
                   /\ ws # {}
                   /\ cache' = cache
                   /\ Body(Writer(Latest(ws))).cached = FALSE
                   /\ Body(New).fetchedAt = Body(Writer(Latest(ws))).fetchedAt
                   /\ Body(New).cards = Body(Writer(Latest(ws))).cards
                   /\ Body(New).fetchedAt = nowISO(writes[Latest(ws)].read)
       /\ \A i \in DOMAIN reqs :
            (Completing(i) /\ Status(reqs'[i]) = 200)
                => /\ Body(reqs'[i]).cached = FALSE
                   /\ reqs'[i].fetches = 1
                   /\ Body(reqs'[i]).fetchedAt = nowISO(now)
                   /\ reqs'[i].wrote = Len(writes')
                   /\ writes'[Len(writes')].by = i
       /\ \A i \in DOMAIN reqs' :
            (reqs'[i].pc = "done" /\ Status(reqs'[i]) = 200)
                => (Body(reqs'[i]).cached <=> reqs'[i].fetches = 0)]_vars

\* C4 witness: a request answered from the cache, later than the instant the
\* entry was fetched, with the fetchedAt of the request that fetched it.
C4_Witness ==
    \E i, k \in DOMAIN reqs :
        /\ i < k
        /\ reqs[i].wrote > 0 /\ Body(reqs[i]).cached = FALSE
        /\ reqs[k].pc = "done" /\ Status(reqs[k]) = 200 /\ Body(reqs[k]).cached = TRUE
        /\ reqs[k].queue = reqs[i].queue
        /\ Body(reqs[k]).fetchedAt = Body(reqs[i]).fetchedAt
        /\ now > writes[reqs[i].wrote].read
        /\ Body(reqs[k]).cards # <<>>

\* The arriving request is refused with this code, touching nothing.
Refused(status, code) ==
    /\ New.pc = "done"
    /\ Status(New) = status
    /\ Body(New).error.code = code
    /\ New.fetches = 0
    /\ New.sent = None
    /\ cache' = cache
    /\ writes' = writes

\* C5 as stated (the credential being configured): a request without a queue
\* parameter gets 400 MISSING_PARAMETER and a request whose queue parameter is
\* present but not one of the five queues gets 400 INVALID_PARAMETER; no
\* provider request is made and the cache is unchanged.
C5_AsStated ==
    [][(Arriving /\ TokenSet)
         => /\ New.queue = None => Refused(400, "MISSING_PARAMETER")
            /\ (New.queue # None /\ Get(New.queue) \notin TheQueues)
                 => Refused(400, "INVALID_PARAMETER")]_vars

\* C5 amended: with the credential configured, a request whose queue
\* parameter is absent or empty (?queue=) gets 400 MISSING_PARAMETER, and a
\* request whose queue parameter is not empty and not one of the five queues
\* gets 400 INVALID_PARAMETER with a message listing the five; in both cases
\* no provider request is made and the cache is unchanged.
C5_BadParameterRefused ==
    [][(Arriving /\ TokenSet)
         => /\ (New.queue = None \/ New.queue = Some(""))
                 => Refused(400, "MISSING_PARAMETER")
            /\ (New.queue # None /\ New.queue # Some("") /\ Get(New.queue) \notin TheQueues)
                 => /\ Refused(400, "INVALID_PARAMETER")
                    /\ Body(New).error.message =
                         "Invalid queue type. Must be one of: needs-qa, needs-pm, dev-queue, ready-to-merge, in-flight"]_vars

\* C5 witness: with an entry in the cache, a request with parameter "bogus"
\* was refused with INVALID_PARAMETER and one with an empty parameter with
\* MISSING_PARAMETER.
C5_Witness ==
    /\ DOMAIN cache # {}
    /\ \E i \in DOMAIN reqs :
          /\ reqs[i].queue = Some("bogus")
          /\ reqs[i].pc = "done" /\ Status(reqs[i]) = 400
          /\ Body(reqs[i]).error.code = "INVALID_PARAMETER"

C5_WitnessEmpty ==
    \E i \in DOMAIN reqs :
        /\ reqs[i].queue = Some("")
        /\ reqs[i].pc = "done" /\ Status(reqs[i]) = 400
        /\ Body(reqs[i]).error.code = "MISSING_PARAMETER"

\* C6: while GITHUB_TOKEN is not configured (unset or empty), every request,
\* whatever its queue parameter and whatever the cache holds, gets 401
\* CONFIG_ERROR at once; no provider request is made, the cache is left as it
\* was (an expired entry is not even evicted), and an answered request is
\* never taken up again.
C6_NoTokenRefused ==
    [][/\ (Arriving /\ ~TokenSet) => Refused(401, "CONFIG_ERROR")
       /\ \A i \in DOMAIN reqs :
            reqs[i].pc = "done" => reqs'[i] = reqs[i]]_vars

\* C6 witness: the token is gone, the cache holds an entry that has expired,
\* and a request for that very queue was answered 401.
C6_Witness ==
    /\ ~TokenSet
    /\ \E i \in DOMAIN reqs, q \in TheQueues :
          /\ reqs[i].queue = Some(q)
          /\ reqs[i].pc = "done" /\ Status(reqs[i]) = 401
          /\ KeyOf(q) \in DOMAIN cache
          /\ now - cache[KeyOf(q)].timestamp >= 60000

\* A request whose provider call fails is answered 502 GITHUB_ERROR after one
\* provider request, and answering it changes nothing in the cache.
FailureLeavesCache ==
    \A i \in DOMAIN reqs :
        (Completing(i) /\ Len(writes') = Len(writes))
            => /\ Status(reqs'[i]) = 502
               /\ Body(reqs'[i]).error.code = "GITHUB_ERROR"
               /\ reqs'[i].fetches = 1
               /\ reqs'[i].wrote = 0
               /\ cache' = cache
\* A response that is not ok always ends in such a failure.
NotOkFails ==
    \A i \in DOMAIN reqs' :
        (reqs'[i].pc = "done" /\ reqs'[i].response # None
           /\ Get(reqs'[i].response).status \notin 200..299)
            => Status(reqs'[i]) = 502 /\ reqs'[i].wrote = 0
\* The request for New's queue that arrived last before it failed.
LastFailed ==
    LET same == {i \in DOMAIN reqs : reqs[i].queue = New.queue}
    IN  /\ same # {}
        /\ reqs[Latest(same)].pc = "done"
        /\ Status(reqs[Latest(same)]) = 502

\* C7 as stated: ... no entry is created or replaced for that queue, so the
\* next request for the queue fetches again.
C7_AsStated ==
    [][/\ FailureLeavesCache
       /\ NotOkFails
       /\ (Arriving /\ TokenSet /\ ForQueue(New) /\ LastFailed)
            => New.pc = "awaitFetch" /\ New.fetches = 1]_vars

\* C7 amended: when the provider call of a cache-miss request fails, the
\* request is answered 502 GITHUB_ERROR, exactly one provider request was made
\* for it, and it creates or replaces no cache entry; the next request for
\* the queue fetches again unless an overlapping request's successful fetch
\* has stored an entry for the queue that is still valid.
C7_FailureStoresNothing ==
    [][/\ FailureLeavesCache
       /\ NotOkFails
       /\ (Arriving /\ TokenSet /\ ForQueue(New) /\ LastFailed)
            => IF FreshWrites(Get(New.queue), now) = {}
               THEN New.pc = "awaitFetch" /\ New.fetches = 1
               ELSE Status(New) = 200 /\ Body(New).cached = TRUE]_vars

\* C7 witness: a request failed on a response that was not ok, nothing was
\* stored, and the next request for the queue is fetching again.
C7_Witness ==
    \E i, k \in DOMAIN reqs :
        /\ i < k
        /\ reqs[i].queue = reqs[k].queue
        /\ reqs[i].pc = "done" /\ Status(reqs[i]) = 502
        /\ reqs[i].response # None
        /\ Get(reqs[i].response).status = 500
        /\ reqs[k].pc = "awaitFetch"
        /\ writes = <<>> /\ cache = <<>>

\* The reset instants and status messages the claims expect, written out.
ExpectedReset(reset) ==
    CASE reset = Some(<<"1", "7", "0", "0", "0", "0", "0", "0", "0", "0">>)
             -> "2023-11-14T22:13:20.000Z"
      [] reset = Some(<<"0">>) -> "1970-01-01T00:00:00.000Z"
ExpectedStatusMessage(status) ==
    CASE status = 304 -> "GitHub API error: 304"
      [] status = 404 -> "GitHub API error: 404"
      [] status = 500 -> "GitHub API error: 500"

\* C8: the search client classifies responses by status.  2xx: the items are
\* returned (the request is answered 200 unless the body cannot be parsed).
\* 403 or 429: the rate-limit error, whose message ends with the reset instant
\* (the header's seconds since the epoch as an ISO timestamp) exactly when the
\* response carries X-RateLimit-Reset.  Any other status: the provider error
\* whose message carries the status.  Both errors reach the caller as 502
\* GITHUB_ERROR with that message.
C8_StatusClassified ==
    \A i \in DOMAIN reqs :
        (reqs[i].pc = "done" /\ reqs[i].response # None)
            => LET st    == Get(reqs[i].response).status
                   reset == Get(reqs[i].response).reset
               IN  IF st \in 200..299
                   THEN \/ Status(reqs[i]) = 200 /\ reqs[i].wrote > 0
                        \/ /\ Status(reqs[i]) = 502
                           /\ Body(reqs[i]).error.message \in JsonErrors
                   ELSE /\ Status(reqs[i]) = 502
                        /\ Body(reqs[i]).error.code = "GITHUB_ERROR"
                        /\ Body(reqs[i]).error.message =
                             IF st = 403 \/ st = 429
                             THEN IF reset = None
                                  THEN "GitHub rate limit exceeded"
                                  ELSE "GitHub rate limit exceeded. Resets at "
                                           \o ExpectedReset(reset)
                             ELSE ExpectedStatusMessage(st)

\* C8 witness: a 429 with a reset header was answered with the reset instant.
C8_Witness ==
    \E i \in DOMAIN reqs :
        /\ reqs[i].pc = "done"
        /\ reqs[i].response = Some([status |-> 429,
               reset |-> Some(<<"1", "7", "0", "0", "0", "0", "0", "0", "0", "0">>)])
        /\ Body(reqs[i]).error.message =
               "GitHub rate limit exceeded. Resets at 2023-11-14T22:13:20.000Z"

\* The queue a step acts for: that of the arriving request, or of the request
\* whose record the step changes.
ActsFor(q) ==
    \/ Arriving /\ New.queue = Some(q)
    \/ \E i \in DOMAIN reqs : reqs'[i] # reqs[i] /\ reqs[i].queue = Some(q)

\* C9: under any interleaving, a step that reads, evicts or writes the cache
\* for queue q touches only the entry keyed github:queue:q: whenever the entry
\* of a queue appears, disappears or changes, the step acts for that queue;
\* every key in the cache is the key of one of the five queues; and different
\* queues have different keys.
C9_OtherQueuesUntouched ==
    [][/\ \A q \in TheQueues :
            \/ ActsFor(q)
            \/ /\ KeyOf(q) \in DOMAIN cache' <=> KeyOf(q) \in DOMAIN cache
               /\ KeyOf(q) \in DOMAIN cache => cache'[KeyOf(q)] = cache[KeyOf(q)]
       /\ DOMAIN cache' \subseteq {KeyOf(q) : q \in TheQueues}
       /\ \A q1, q2 \in TheQueues : q1 # q2 => cacheKey(q1) # cacheKey(q2)
       /\ \A q \in TheQueues : cacheKey(q) = KeyOf(q)]_vars

\* C9 witness: overlapping requests for two queues have each stored their
\* own result, at different times, and both entries are in the cache.
C9_Witness ==
    /\ Len(writes) = 2
    /\ writes[1].key # writes[2].key
    /\ writes[1].by > writes[2].by
    /\ writes[1].at < writes[2].at
    /\ DOMAIN cache = {writes[1].key, writes[2].key}
    /\ cache[writes[1].key].timestamp = writes[1].at
    /\ cache[writes[1].key].data.cards # cache[writes[2].key].data.cards

\* C10: a provider request that never returns blocks only the request that
\* made it: every other request, whether it arrived before or after and
\* whether it is for the same queue or not, gets its response, provided its
\* own provider call returns.
C10_OthersComplete ==
    \A i \in 1..(MaxReqs + 1) :
        [](i \in DOMAIN reqs
             => <>(i \in DOMAIN reqs /\ (reqs[i].hangs \/ reqs[i].pc = "done")))

\* C10 witness: one request is suspended on a provider that never answers,
\* and a request for the same queue that arrived after it has fetched and
\* been answered.
C10_Witness ==
    \E i, k \in DOMAIN reqs :
        /\ i < k
        /\ reqs[i].hangs /\ reqs[i].pc = "awaitFetch"
        /\ reqs[k].queue = reqs[i].queue
        /\ reqs[k].pc = "done" /\ Status(reqs[k]) = 200 /\ reqs[k].fetches = 1

----------------------------------------------------------------------------
(* Further claims about the route handler *)

\* The cache holds no valid entry for queue q at time t.
NoValidEntry(q, t) ==
    KeyOf(q) \notin DOMAIN cache \/ t - cache[KeyOf(q)].timestamp >= 60000
\* The requests for queue q that are awaiting the provider.
InFlight(q) ==
    {i \in DOMAIN reqs : reqs[i].queue = Some(q) /\ reqs[i].pc # "done"}

\* C11: the handler does not coalesce fetches.  A request for a queue that
\* arrives, with the credential set, while the cache holds no valid entry
\* for the queue makes its own provider request whatever other requests for
\* the queue are awaiting the provider at that moment (so several provider
\* requests for one queue can be in flight at once); and no request ever
\* makes more than one provider request: the count it has on arrival is 0
\* or 1 and never changes afterwards.
C11_NoCoalescing ==
    [][/\ (Arriving /\ TokenSet /\ ForQueue(New) /\ NoValidEntry(Get(New.queue), now))
            => /\ New.pc = "awaitFetch"
               /\ New.fetches = 1
               /\ New.sent # None
               /\ \A i \in InFlight(Get(New.queue)) :
                      reqs'[i] = reqs[i] /\ reqs[i].fetches = 1
       /\ Arriving => New.fetches \in {0, 1}
       /\ \A i \in DOMAIN reqs : /\ reqs'[i].fetches = reqs[i].fetches
                                  /\ reqs'[i].sent = reqs[i].sent]_vars

\* C11 witness: two requests for one queue are awaiting the provider at once,
\* each with its own provider request, and nothing has been stored yet.
C11_Witness ==
    \E i, j \in DOMAIN reqs :
        /\ i < j
        /\ reqs[i].queue = reqs[j].queue
        /\ reqs[i].pc = "awaitFetch" /\ reqs[j].pc = "awaitFetch"
        /\ reqs[i].fetches = 1 /\ reqs[j].fetches = 1
        /\ reqs[i].sent # None /\ reqs[j].sent # None
        /\ writes = <<>>

\* Reading a URL: the text between "?q=" and the next "&", and its terms,
\* which "+" separates.
Occurrences(s, pat) == {i \in 1..Len(s) : MatchAt(s, i, pat)}
UpTo(s, ch) ==
    LET hits == {i \in 1..Len(s) : s[i] = ch}
    IN  IF hits = {} THEN s
        ELSE SubSeq(s, 1, (CHOOSE h \in hits : \A g \in hits : h <= g) - 1)
QueryOf(url) ==
    LET i == CHOOSE h \in Occurrences(url, <<"?", "q", "=">>) : TRUE
    IN  UpTo(From(url, i + 3), "&")
RECURSIVE Terms(_)
Terms(q) ==
    LET t == UpTo(q, "+")
    IN  IF Len(t) = Len(q) THEN <<t>> ELSE <<t>> \o Terms(From(q, Len(t) + 2))
\* The label filters the claim gives each queue, as they are to appear.
ExpectedFilters(queue) ==
    CASE queue = "needs-qa" -> {<<"l", "a", "b", "e", "l", ":", "%", "2", "2", "n", "e", "e", "d", "s", ":", "q", "a", "%", "2", "2">>}
      [] queue = "needs-pm" -> {<<"l", "a", "b", "e", "l", ":", "%", "2", "2", "n", "e", "e", "d", "s", ":", "p", "m", "%", "2", "2">>}
      [] queue = "dev-queue" -> {<<"l", "a", "b", "e", "l", ":", "%", "2", "2", "s", "t", "a", "t", "u", "s", ":", "r", "e", "a", "d", "y", "%", "2", "2">>,
                                 <<"l", "a", "b", "e", "l", ":", "%", "2", "2", "n", "e", "e", "d", "s", ":", "d", "e", "v", "%", "2", "2">>}
      [] queue = "ready-to-merge" -> {<<"l", "a", "b", "e", "l", ":", "%", "2", "2", "s", "t", "a", "t", "u", "s", ":", "v", "e", "r", "i", "f", "i", "e", "d", "%", "2", "2">>}
      [] queue = "in-flight" -> {<<"l", "a", "b", "e", "l", ":", "%", "2", "2", "s", "t", "a", "t", "u", "s", ":", "i", "n", "-", "p", "r", "o", "g", "r", "e", "s", "s", "%", "2", "2">>}
\* The request sent for a queue carries the query the claim describes.
QueryAsSpecified(queue, sent) ==
    LET terms == Terms(QueryOf(sent.url))
    IN  /\ Occurrences(sent.url, <<"?", "q", "=">>) # {}
        /\ {terms[k] : k \in DOMAIN terms}
              = {<<"r", "e", "p", "o", ":", "d", "u", "r", "g", "a", "n", "f", "i", "e", "l", "d", "g", "u", "i", "d", "e", "/", "d", "f", "g", "-", "c", "o", "n", "s", "o", "l", "e">>, <<"s", "t", "a", "t", "e", ":", "o", "p", "e", "n">>}
                   \cup ExpectedFilters(queue)
        /\ Len(terms) = 2 + Cardinality(ExpectedFilters(queue))
        /\ Cardinality(Occurrences(sent.url, <<"l", "a", "b", "e", "l", ":">>))
              = Cardinality(ExpectedFilters(queue))
        /\ \A k \in DOMAIN sent.url : sent.url[k] # "\""

\* C12: for each of the five queue identifiers the query sent to the
\* provider is made of the repository scope, the open-state filter and
\* exactly the label filters of that queue, joined by literal "+", with ":"
\* literal and every quote written %22; this holds of the request a GET
\* sends on a miss and of the one fetchGitHubQueue builds when called
\* directly.  For any identifier outside the five, the query builder fails
\* with the error "Unknown queue type: <identifier>".
C12_QueryPerQueue ==
    /\ \A i \in DOMAIN reqs :
           reqs[i].sent # None
               => /\ Get(reqs[i].queue) \in TheQueues
                  /\ QueryAsSpecified(Get(reqs[i].queue), Get(reqs[i].sent))
    /\ call.op = "fetchGitHubQueue"
           => IF call.key \in TheQueues
              THEN /\ Get(call.ret).ok
                   /\ QueryAsSpecified(call.key, Get(call.ret).sent)
              ELSE /\ ~Get(call.ret).ok
                   /\ Get(call.ret).message = "Unknown queue type: " \o call.key

\* C12 witness: the query for dev-queue, with its two label filters, has
\* been sent by a request, and the builder has refused an unknown identifier.
C12_Witness ==
    /\ \E i \in DOMAIN reqs :
           /\ reqs[i].queue = Some("dev-queue")
           /\ reqs[i].sent # None
           /\ Get(reqs[i].sent).url =
                <<"h", "t", "t", "p", "s", ":", "/", "/", "a", "p", "i", ".", "g", "i", "t", "h", "u", "b", ".", "c", "o", "m", "/", "s", "e", "a", "r", "c", "h", "/", "i", "s", "s", "u", "e", "s", "?", "q", "=", "r", "e", "p", "o", ":", "d", "u", "r", "g", "a", "n", "f", "i", "e", "l", "d", "g", "u", "i", "d", "e", "/", "d", "f", "g", "-", "c", "o", "n", "s", "o", "l", "e", "+", "s", "t", "a", "t", "e", ":", "o", "p", "e", "n", "+", "l", "a", "b", "e", "l", ":", "%", "2", "2", "s", "t", "a", "t", "u", "s", ":", "r", "e", "a", "d", "y", "%", "2", "2", "+", "l", "a", "b", "e", "l", ":", "%", "2", "2", "n", "e", "e", "d", "s", ":", "d", "e", "v", "%", "2", "2", "&", "s", "o", "r", "t", "=", "u", "p", "d", "a", "t", "e", "d", "&", "o", "r", "d", "e", "r", "=", "d", "e", "s", "c", "&", "p", "e", "r", "_", "p", "a", "g", "e", "=", "5", "0">>
    /\ call.op = "fetchGitHubQueue"
    /\ call.key = "bogus"
    /\ Get(call.ret) = [ok |-> FALSE, message |-> "Unknown queue type: bogus"]

\* Card k is the card the claim gives raw item k.
CardOf(card, item) ==
    /\ card.number = item.number
    /\ card.title = item.title
    /\ card.url = item.html_url
    /\ card.updatedAt = item.updated_at
    /\ card.type = (IF item.pull_request # None THEN "pr" ELSE "issue")
    /\ card.body = (IF item.body = None THEN <<>> ELSE Get(item.body))
OneCardPerItem(cards, items) ==
    /\ Len(cards) = Len(items)
    /\ \A k \in DOMAIN items : CardOf(cards[k], items[k])

\* C13: the card list made from a successful provider response has exactly
\* one card per raw item, in the order of the response: the same length, and
\* the k-th card carries the number, title, URL and updated-at of the k-th
\* item, has type "pr" exactly when the item carries a pull-request marker,
\* and has the raw body, or the empty text when the raw body is null.  This
\* holds of the cards the fetching request returns, of the cards it stores,
\* and of the cards a later request is served from that entry.
C13_OneCardPerItemInOrder ==
    /\ \A i \in DOMAIN reqs :
           reqs[i].wrote > 0
               => OneCardPerItem(Body(reqs[i]).cards, writes[reqs[i].wrote].items)
    /\ \A key \in DOMAIN cache :
           LET w == Latest({v \in DOMAIN writes : writes[v].key = key})
           IN  OneCardPerItem(cache[key].data.cards, writes[w].items)
    /\ \A i \in DOMAIN reqs :
           (reqs[i].pc = "done" /\ Status(reqs[i]) = 200 /\ Body(reqs[i]).cached)
               => \E w \in DOMAIN writes :
                     OneCardPerItem(Body(reqs[i]).cards, writes[w].items)

\* C13 witness: a response with a pull request (null body) before an issue
\* was returned as two cards in that order, and served again from the cache.
C13_Witness ==
    \E i, j \in DOMAIN reqs :
        /\ reqs[i].wrote > 0
        /\ writes[reqs[i].wrote].items = <<RawItemB, RawItemA>>
        /\ Len(Body(reqs[i]).cards) = 2
        /\ Body(reqs[i]).cards[1].type = "pr" /\ Body(reqs[i]).cards[1].number = 9
        /\ Body(reqs[i]).cards[1].body = <<>>
        /\ Body(reqs[i]).cards[2].type = "issue" /\ Body(reqs[i]).cards[2].number = 7
        /\ reqs[j].pc = "done" /\ reqs[j].fetches = 0 /\ Status(reqs[j]) = 200
        /\ Body(reqs[j]).cards = Body(reqs[i]).cards

----------------------------------------------------------------------------
(* Claims about the normalizer *)

\* What the claims read: the raw item of the last call and the card made.
Normalized == call.op = "normalizeGitHubIssue"
TheItem == call.key
TheCard == Get(call.ret)
\* The label names of the item, in source order.
Names == [k \in DOMAIN TheItem.labels |-> TheItem.labels[k].name]
\* The positions of the names that begin with prefix.
Prefixed(prefix) ==
    {k \in DOMAIN Names : /\ Len(Names[k]) >= Len(prefix)
                          /\ SubSeq(Names[k], 1, Len(prefix)) = prefix}
\* The n-th position of a set of positions, in increasing order.
Nth(ps, n) == CHOOSE p \in ps : Cardinality({q \in ps : q <= p}) = n
\* out is the subsequence of the names at the positions ps.
IsSubsequenceAt(out, ps) ==
    /\ Len(out) = Cardinality(ps)
    /\ \A n \in 1..Len(out) : out[n] = Names[Nth(ps, n)]

\* C14: statusLabels is exactly the subsequence of the item's label names
\* that begin with "status:", needsLabels the subsequence of those that
\* begin with "needs:" (case-sensitive, order kept, names unchanged), and
\* qaGrade is the name of the first label that begins with "qa-grade:",
\* without that prefix, or absent when no label begins with it.
C14_LabelsDerived ==
    Normalized =>
        /\ IsSubsequenceAt(TheCard.statusLabels, Prefixed(<<"s", "t", "a", "t", "u", "s", ":">>))
        /\ IsSubsequenceAt(TheCard.needsLabels, Prefixed(<<"n", "e", "e", "d", "s", ":">>))
        /\ LET qa == Prefixed(<<"q", "a", "-", "g", "r", "a", "d", "e", ":">>)
           IN  IF qa = {} THEN TheCard.qaGrade = None
               ELSE TheCard.qaGrade
                      = Some(SubSeq(Names[Nth(qa, 1)], 10, Len(Names[Nth(qa, 1)])))

\* C14 witness: the claim's example, labels [status:ready, needs:dev,
\* qa-grade:A], has given statusLabels [status:ready], needsLabels
\* [needs:dev] and qaGrade A.
C14_Witness ==
    /\ Normalized
    /\ Names = <<<<"s", "t", "a", "t", "u", "s", ":", "r", "e", "a", "d", "y">>, <<"n", "e", "e", "d", "s", ":", "d", "e", "v">>, <<"q", "a", "-", "g", "r", "a", "d", "e", ":", "A">>>>
    /\ TheCard.statusLabels = <<<<"s", "t", "a", "t", "u", "s", ":", "r", "e", "a", "d", "y">>>>
    /\ TheCard.needsLabels = <<<<"n", "e", "e", "d", "s", ":", "d", "e", "v">>>>
    /\ TheCard.qaGrade = Some(<<"A">>)

\* A second case of C14: of two grade labels the first counts, a name in
\* another case is not taken, and the two needs labels keep their order.
C14_WitnessFirstGrade ==
    /\ Normalized
    /\ Len(Names) = 5
    /\ TheCard.qaGrade = Some(<<"B">>)
    /\ TheCard.statusLabels = <<>>
    /\ TheCard.needsLabels = <<<<"n", "e", "e", "d", "s", ":", "q", "a">>, <<"n", "e", "e", "d", "s", ":", "d", "e", "v">>>>

\* Reading a body as markdown: its lines, the heading lines among them, and
\* the section under a heading line (the lines after it up to the next
\* heading line or the end of the body, joined again by line feeds).
RECURSIVE LinesOf(_)
LinesOf(text) ==
    LET l == UpTo(text, "\n")
    IN  IF Len(l) = Len(text) THEN <<l>> ELSE <<l>> \o LinesOf(From(text, Len(l) + 2))
IsHeadingLine(line) == Len(line) >= 1 /\ line[1] = "#"
IsAgentBriefHeading(line) ==
    /\ Len(line) >= 2 /\ line[1] = "#" /\ line[2] = "#"
    /\ LET a == SkipSpace(line, 3)
       IN  /\ a + 10 <= Len(line)
           /\ \A k \in 1..11 : Lower(line[a + k - 1]) = <<"a", "g", "e", "n", "t", " ", "b", "r", "i", "e", "f">>[k]
           /\ \A k \in (a + 11)..Len(line) : IsSpace(line[k])
RECURSIVE JoinLines(_)
JoinLines(ls) ==
    IF ls = <<>> THEN <<>>
    ELSE IF Len(ls) = 1 THEN ls[1]
    ELSE ls[1] \o <<"\n">> \o JoinLines(Tail(ls))
SectionUnder(ls, h) ==
    LET next == {k \in (h + 1)..Len(ls) : IsHeadingLine(ls[k])}
        stop == IF next = {} THEN Len(ls) + 1
                ELSE CHOOSE k \in next : \A g \in next : k <= g
    IN  JoinLines(SubSeq(ls, h + 1, stop - 1))
\* The body has an Agent Brief heading whose section, trimmed, has at least
\* ten characters.
HasBriefSection(text) ==
    LET ls == LinesOf(text)
        hs == {k \in DOMAIN ls : IsAgentBriefHeading(ls[k])}
    IN  /\ hs # {}
        /\ Len(Trim(SectionUnder(ls, CHOOSE k \in hs : \A g \in hs : k <= g))) >= 10

\* C15: hasAgentBrief is true if and only if the body contains a heading
\* line matching "Agent Brief" (ignoring case) and the text between that line
\* and the next heading (or the end of the body), trimmed, has at least ten
\* characters.  A body with no such heading, a section under ten characters
\* and a section that is empty because another heading follows at once all
\* give hasAgentBrief = false.
C15_AsStated ==
    Normalized => (TheCard.hasAgentBrief <=> HasBriefSection(TheCard.body))

\* The text of s from position i up to position j - 1 is word, ignoring case.
IsWordAt(s, i, j, word) ==
    /\ j - i = Len(word) /\ i >= 1 /\ j <= Len(s) + 1
    /\ \A k \in 1..Len(word) : Lower(s[i + k - 1]) = word[k]
AllSpace(s, i, j) == \A k \in i..(j - 1) : IsSpace(s[k])
\* The URLs of the matches that start at position i of s: the word preview
\* or deploy (ending before a), optionally white space and the word url,
\* a colon (at c), optional white space, then from h the scheme http:// or
\* https:// (ending before u) and at least one more character, the URL
\* ending (before e) at the first white space or ")" or at the end of s.
PreviewUrlsAt(s, i) ==
    UNION {UNION {UNION {UNION
      {{SubSeq(s, h, e - 1) :
          e \in {x \in (u + 1)..(Len(s) + 1) :
                   /\ \A k \in u..(x - 1) : ~IsSpace(s[k]) /\ s[k] # ")"
                   /\ x = Len(s) + 1 \/ IsSpace(s[x]) \/ s[x] = ")"}} :
        u \in {x \in {h + 7, h + 8} :
                 \/ IsWordAt(s, h, x, <<"h", "t", "t", "p", ":", "/", "/">>)
                 \/ IsWordAt(s, h, x, <<"h", "t", "t", "p", "s", ":", "/", "/">>)}} :
        h \in {x \in (c + 1)..Len(s) : AllSpace(s, c + 1, x)}} :
        c \in {x \in a..Len(s) :
                 /\ s[x] = ":"
                 /\ \/ x = a
                    \/ /\ x - 3 > a
                       /\ AllSpace(s, a, x - 3)
                       /\ IsWordAt(s, x - 3, x, <<"u", "r", "l">>)}} :
        a \in {x \in {i + 6, i + 7} :
                 \/ IsWordAt(s, i, x, <<"p", "r", "e", "v", "i", "e", "w">>)
                 \/ IsWordAt(s, i, x, <<"d", "e", "p", "l", "o", "y">>)}}
\* The URL of the first match in s, if s has a match.
FirstPreviewUrl(s) ==
    LET at == {i \in 1..Len(s) : PreviewUrlsAt(s, i) # {}}
    IN  IF at = {} THEN None
        ELSE Some(CHOOSE url \in PreviewUrlsAt(s, CHOOSE i \in at : \A g \in at : i <= g) : TRUE)

\* C16: previewUrl is the URL of the first match in the body of: preview or
\* deploy (ignoring case), optionally followed by the word url (white space
\* before it), then a colon and optional white space, then an http:// or
\* https:// URL that runs up to the first white space or ")"; a position has
\* at most one match, and previewUrl is absent when the body has none, as
\* when the body is empty or null.
C16_PreviewUrlFirstMatch ==
    Normalized =>
        /\ \A i \in 1..Len(TheCard.body) :
               Cardinality(PreviewUrlsAt(TheCard.body, i)) <= 1
        /\ TheCard.previewUrl = FirstPreviewUrl(TheCard.body)
        /\ (TheItem.body = None \/ TheItem.body = Some(<<>>))
               => TheCard.previewUrl = None

\* C16 witness: of two links in a body the first was taken, and it ends at
\* the white space that follows it.
C16_Witness ==
    /\ Normalized
    /\ TheItem.body = Some(<<"D", "e", "p", "l", "o", "y", ":", " ", "h", "t", "t", "p", ":", "/", "/", "a", ".", "b", " ", "p", "r", "e", "v", "i", "e", "w", ":", "\t", "h", "t", "t", "p", "s", ":", "/", "/", "c", ".", "d">>)
    /\ TheCard.previewUrl = Some(<<"h", "t", "t", "p", ":", "/", "/", "a", ".", "b">>)

\* Further cases of C16: a URL in parentheses ends before ")", and a body
\* whose link is not http or https has no previewUrl.
C16_WitnessParenthesis ==
    /\ Normalized
    /\ TheItem.body = Some(<<"(", "d", "e", "p", "l", "o", "y", " ", " ", "u", "r", "l", ":", "h", "t", "t", "p", ":", "/", "/", "a", ".", "b", ")", " ", "o", "k">>)
    /\ TheCard.previewUrl = Some(<<"h", "t", "t", "p", ":", "/", "/", "a", ".", "b">>)
C16_WitnessAbsent ==
    /\ Normalized
    /\ TheItem.body = Some(<<"p", "r", "e", "v", "i", "e", "w", ":", " ", "f", "t", "p", ":", "/", "/", "a", ".", "b">>)
    /\ TheCard.previewUrl = None

----------------------------------------------------------------------------
(* Claims about what reaches the caller *)

\* C17: the credential never reaches the caller, nor does the provider's
\* error body.  Of two processes that differ in the value of the (non-empty)
\* bearer token, and in the error bodies the provider sends them, and that
\* are given the same requests and the same provider status, headers and
\* items, every request gets the same response from both: status, error
\* code and message, cards, cached and fetchedAt.
C17_SameResponses ==
    /\ token # call.token
    /\ ~tokenMissing(token) /\ ~tokenMissing(call.token)
    /\ Len(call.reqs) = Len(reqs)
    /\ \A i \in DOMAIN reqs :
           /\ call.reqs[i].pc = reqs[i].pc
           /\ call.reqs[i].resp = reqs[i].resp

\* C17 witness: a request was refused by the provider, the two processes
\* read different error bodies, and both answered it 502 with the same
\* message; their requests to the provider carried different credentials.
C17_Witness ==
    \E i \in DOMAIN reqs :
        /\ i \in DOMAIN call.reqs
        /\ reqs[i].pc = "done" /\ call.reqs[i].pc = "done"
        /\ reqs[i].response # None /\ Get(reqs[i].response).status = 500
        /\ Len(call.texts) = 2 /\ call.texts[1] # call.texts[2]
        /\ Status(reqs[i]) = 502
        /\ call.reqs[i].resp = reqs[i].resp
        /\ Get(reqs[i].sent).headers.Authorization
             # Get(call.reqs[i].sent).headers.Authorization

----------------------------------------------------------------------------
(* Claims about the life of a cache entry *)

\* The arriving request is served from the cache.
ServedFromCache ==
    Arriving /\ New.pc = "done" /\ Status(New) = 200 /\ Body(New).cached
\* This step stores an entry for key.
Stores(key) ==
    Len(writes') = Len(writes) + 1 /\ writes'[Len(writes')].key = key
\* This step is the arrival of a request that reads key.
Reads(key) ==
    Arriving /\ TokenSet /\ ForQueue(New) /\ KeyOf(Get(New.queue)) = key

\* C18: the time to live runs from the moment an entry is stored and does
\* not slide.  A request served from the cache leaves the whole cache as it
\* was, and the entry it is served is less than 60 s old.  An entry changes
\* only when a request stores a new one for its key.  An entry is removed
\* only by the arrival of a request that reads its key 60 s or more after it
\* was stored, and every such read removes it; no other step removes
\* one, the passing of time included.
C18_FixedWindow ==
    [][/\ ServedFromCache
            => /\ cache' = cache
               /\ now - cache[KeyOf(Get(New.queue))].timestamp < 60000
       /\ \A key \in DOMAIN cache :
              /\ (key \in DOMAIN cache' /\ cache'[key] # cache[key]) => Stores(key)
              /\ key \notin DOMAIN cache'
                    => Reads(key) /\ now - cache[key].timestamp >= 60000
              /\ (Reads(key) /\ now - cache[key].timestamp >= 60000)
                    => /\ key \notin DOMAIN cache'
                       /\ New.pc = "awaitFetch"
       /\ \A key \in DOMAIN cache' \ DOMAIN cache : Stores(key)]_vars

\* C18 witness: an entry was stored, read once within its 60 s by a request
\* that was served from it, and removed by the next read, 60 s or more after
\* it was stored; that request fetches anew.
C18_Witness ==
    /\ Len(reqs) = 3 /\ Len(writes) = 1
    /\ reqs[1].wrote = 1
    /\ reqs[2].pc = "done" /\ Status(reqs[2]) = 200 /\ Body(reqs[2]).cached
    /\ reqs[3].pc = "awaitFetch" /\ reqs[3].fetches = 1
    /\ now - writes[1].at >= 60000
    /\ cache = <<>>

\* The five keys a cache entry can have.
TheKeys ==
    {"github:queue:needs-qa", "github:queue:needs-pm", "github:queue:dev-queue",
     "github:queue:ready-to-merge", "github:queue:in-flight"}
\* The arriving request has no queue parameter or one that is not a queue.
ArrivingInvalid ==
    Arriving /\ (New.queue = None \/ Get(New.queue) \notin TheQueues)

\* C19: after any sequence and interleaving of requests the keys of the
\* cache are among the five keys github:queue:<q> of the valid queues, so
\* the cache never holds more than five entries; and a request whose queue
\* parameter is absent or invalid leaves the cache exactly as it was: it
\* creates no entry and evicts none, and makes no provider request.
C19_KeysAreQueueKeys ==
    [][/\ DOMAIN cache' \subseteq TheKeys
       /\ Cardinality(DOMAIN cache') <= 5
       /\ ArrivingInvalid
            => /\ cache' = cache
               /\ New.fetches = 0
               /\ New.pc = "done" /\ Status(New) \in {400, 401}]_vars

\* C19 witness: an entry for the queue in-flight, stored 60 s ago or more,
\* is still in the cache after a request with an invalid parameter.
C19_Witness ==
    /\ Len(reqs) = 2
    /\ reqs[1].queue = Some("in-flight") /\ reqs[1].wrote = 1
    /\ reqs[2].queue = Some("bogus") /\ Status(reqs[2]) = 400
    /\ DOMAIN cache = {"github:queue:in-flight"}
    /\ now - cache["github:queue:in-flight"].timestamp >= 60000

\* The cache writes made for key, in the order they were made.
WritesFor(key) == {w \in DOMAIN writes : writes[w].key = key}

\* C20: under any interleaving of overlapping requests, an entry the cache
\* holds for a queue is the payload (cards and fetchedAt) that a request for
\* that queue returned with cached=false, namely the one whose successful
\* fetch completed last, whichever request arrived first; its timestamp is
\* the instant of that store.  The fetchedAt of successive stores for a queue
\* never decreases, and the fetchedAt of a store is never later than the
\* timestamp of the entry it makes.
C20_LastWriterWins ==
    /\ \A key \in DOMAIN cache :
           /\ WritesFor(key) # {}
           /\ LET w == Latest(WritesFor(key))
                  r == Writer(w)
              IN  /\ r.pc = "done" /\ Status(r) = 200 /\ Body(r).cached = FALSE
                  /\ r.wrote = w
                  /\ KeyOf(Get(r.queue)) = key
                  /\ cache[key].data.cards = Body(r).cards
                  /\ cache[key].data.fetchedAt = Body(r).fetchedAt
                  /\ cache[key].timestamp = writes[w].at
    /\ \A w \in DOMAIN writes :
           /\ Body(Writer(w)).fetchedAt = nowISO(writes[w].read)
           /\ writes[w].read <= writes[w].at
           /\ \A v \in WritesFor(writes[w].key) :
                  v < w => writes[v].read <= writes[w].read

\* C20 witness: of two overlapping requests for a queue the one that arrived
\* second stored first, a millisecond passing between the reading of the
\* clock for fetchedAt and the store; the cache holds what the first
\* request, the last to complete, returned.
C20_Witness ==
    \E i, j \in DOMAIN reqs :
        /\ i < j
        /\ reqs[i].queue = reqs[j].queue
        /\ reqs[j].wrote = 1 /\ reqs[i].wrote = 2
        /\ writes[2].at > writes[2].read
        /\ Body(reqs[i]).cards # Body(reqs[j]).cards
        /\ Body(reqs[i]).fetchedAt # Body(reqs[j]).fetchedAt
        /\ cache[writes[2].key].data.cards = Body(reqs[i]).cards
        /\ cache[writes[2].key].data.fetchedAt = Body(reqs[i]).fetchedAt

====
